---- MODULE Spec2Model ----
(***************************************************************************)
(* Model of the spreadsheet-to-table reconstruction pipeline of            *)
(* python-engine/app: the cell classifier, the header detection engine and *)
(* the block segmentation engine of block_detector.py, the conversion of   *)
(* Brazilian numbers of metrics_engine.py and the removal of empty top     *)
(* rows and of footer rows of cleaner.py.                                  *)
(*                                                                         *)
(* Representation.  A Python string is a sequence of characters, each      *)
(* character a one-character TLA+ string; a character outside ASCII is     *)
(* written by its code point ("U+00D3" is the capital O with acute).  A    *)
(* raw cell value is a record [t, i, s]:                                   *)
(*   t = "none"   None                                                     *)
(*   t = "nan"    the float NaN                                            *)
(*   t = "inf"    the float +infinity                                      *)
(*   t = "int"    the int i                                                *)
(*   t = "float"  the finite float whose repr is  i "." s  (s: digits)     *)
(*   t = "str"    the string s                                             *)
(* Row and column indices in the state are the 0-based indices of the      *)
(* code; a TLA+ sequence is indexed from 1.                                *)
(*                                                                         *)
(* Where a value is used several times it is bound by a quantifier or a    *)
(* set constructor over a singleton, {e(x) : x \in {v}}, which evaluates v *)
(* once.                                                                   *)
(***************************************************************************)
EXTENDS Integers, Sequences, FiniteSets, TLC

None == [t |-> "none", i |-> 0, s |-> <<>>]

NaN == [t |-> "nan", i |-> 0, s |-> <<>>]

Inf == [t |-> "inf", i |-> 0, s |-> <<>>]

IntCell(n) == [t |-> "int", i |-> n, s |-> <<>>]

FloatCell(n, frac) == [t |-> "float", i |-> n, s |-> frac]

StrCell(chars) == [t |-> "str", i |-> 0, s |-> chars]

\* The one element of a singleton set
The(S) == CHOOSE x \in S : TRUE

Max(a, b) == IF a >= b THEN a ELSE b

Min(a, b) == IF a <= b THEN a ELSE b

(***************************************************************************)
(* Characters and the str methods the classifier uses                      *)
(***************************************************************************)
WhiteSpace == {" ", "\t", "\n", "\r"}

Digits == {"0", "1", "2", "3", "4", "5", "6", "7", "8", "9"}

DigitSeq == <<"0", "1", "2", "3", "4", "5", "6", "7", "8", "9">>

UpperAZ ==
  <<"A", "B", "C", "D", "E", "F", "G", "H", "I", "J", "K", "L", "M",
    "N", "O", "P", "Q", "R", "S", "T", "U", "V", "W", "X", "Y", "Z">>

LowerAZ ==
  <<"a", "b", "c", "d", "e", "f", "g", "h", "i", "j", "k", "l", "m",
    "n", "o", "p", "q", "r", "s", "t", "u", "v", "w", "x", "y", "z">>

\* The accented letters of the model's alphabet: capital and small
\* O acute, E acute, C cedilla, A tilde.
UpperAccented == <<"U+00D3", "U+00C9", "U+00C7", "U+00C3">>

LowerAccented == <<"U+00F3", "U+00E9", "U+00E7", "U+00E3">>

SeqRange(q) == {q[k] : k \in DOMAIN q}

AsciiLetters == SeqRange(UpperAZ) \cup SeqRange(LowerAZ)

\* [A-Za-z] and the accented letters of the alphabet, all within U+00C0..U+00FF
LatinLetters == AsciiLetters \cup SeqRange(UpperAccented) \cup SeqRange(LowerAccented)

LowerOf ==
  [c \in SeqRange(UpperAZ) \cup SeqRange(UpperAccented) |->
     IF c \in SeqRange(UpperAZ)
       THEN LowerAZ[CHOOSE k \in DOMAIN UpperAZ : UpperAZ[k] = c]
       ELSE LowerAccented[CHOOSE k \in DOMAIN UpperAccented : UpperAccented[k] = c]]

\* str.lower()
Lower(chars) ==
  <<>> \o [k \in DOMAIN chars |->
             IF chars[k] \in DOMAIN LowerOf THEN LowerOf[chars[k]] ELSE chars[k]]

\* The positions of chars whose character is not in set
PositionsOutside(chars, set) == {k \in DOMAIN chars : chars[k] \notin set}

MinOf(S) == CHOOSE k \in S : \A m \in S : k <= m

MaxOf(S) == CHOOSE k \in S : \A m \in S : m <= k

\* A strip that removes at most one whitespace character from each end.
StripOne(chars) ==
  SubSeq(chars,
         IF chars # <<>> /\ chars[1] \in WhiteSpace THEN 2 ELSE 1,
         IF Len(chars) > 1 /\ chars[Len(chars)] \in WhiteSpace
           THEN Len(chars) - 1 ELSE Len(chars))

\* str.strip(): what lies between the first and the last character that is
\* not whitespace
Strip(chars) ==
  The({IF keep = {} THEN <<>> ELSE SubSeq(chars, MinOf(keep), MaxOf(keep)) :
         keep \in {PositionsOutside(chars, WhiteSpace)}})

\* str.rstrip(c)
RStripChar(chars, c) ==
  The({IF keep = {} THEN <<>> ELSE SubSeq(chars, 1, MaxOf(keep)) :
         keep \in {PositionsOutside(chars, {c})}})

RECURSIVE ReplaceFrom(_, _, _, _)
\* str.replace(old, new) of the part of chars from position k
ReplaceFrom(chars, k, old, new) ==
  IF k > Len(chars) THEN <<>>
  ELSE IF k + Len(old) - 1 <= Len(chars) /\ SubSeq(chars, k, k + Len(old) - 1) = old
    THEN new \o ReplaceFrom(chars, k + Len(old), old, new)
    ELSE <<chars[k]>> \o ReplaceFrom(chars, k + 1, old, new)

\* str.replace(old, new)
ReplaceAll(chars, old, new) == The({ReplaceFrom(c, 1, old, new) : c \in {chars}})

RECURSIVE CollapseFrom(_, _, _)
CollapseFrom(chars, k, set) ==
  IF k > Len(chars) THEN <<>>
  ELSE IF chars[k] \notin set THEN <<chars[k]>> \o CollapseFrom(chars, k + 1, set)
  ELSE IF k < Len(chars) /\ chars[k + 1] \in set THEN CollapseFrom(chars, k + 1, set)
  ELSE <<" ">> \o CollapseFrom(chars, k + 1, set)

\* re.sub("[set]+", " ", chars)
CollapseRuns(chars, set) == The({CollapseFrom(c, 1, set) : c \in {chars}})

RECURSIVE JoinFrom(_, _, _)
JoinFrom(parts, k, sep) ==
  IF k > Len(parts) THEN <<>>
  ELSE IF k = Len(parts) THEN parts[k]
  ELSE parts[k] \o sep \o JoinFrom(parts, k + 1, sep)

\* sep.join(parts)
JoinWith(parts, sep) == The({JoinFrom(p, 1, sep) : p \in {parts}})

\* list(dict.fromkeys(parts)): the first occurrence of each part, in order
Dedup(parts) ==
  The({The({<<>> \o [i \in 1..Cardinality(firsts) |->
                       p[CHOOSE k \in firsts : Cardinality({j \in firsts : j < k}) = i - 1]] :
              firsts \in {{k \in DOMAIN p : \A j \in 1..(k - 1) : p[j] # p[k]}}}) :
         p \in {parts}})

Contains(chars, c) == \E k \in DOMAIN chars : chars[k] = c

StartsWith(chars, prefix) ==
  Len(chars) >= Len(prefix) /\ SubSeq(chars, 1, Len(prefix)) = prefix

RECURSIVE NatToStr(_)
NatToStr(n) ==
  IF n < 10
    THEN <<DigitSeq[n + 1]>>
    ELSE NatToStr(n \div 10) \o <<DigitSeq[(n % 10) + 1]>>

IntToStr(n) == IF n < 0 THEN <<"-">> \o NatToStr(-n) ELSE NatToStr(n)

\* str(value) of a cell value
PyStr(v) ==
  CASE v.t = "int" -> IntToStr(v.i)
    [] v.t = "float" -> IntToStr(v.i) \o <<".">> \o v.s
    [] v.t = "inf" -> <<"i", "n", "f">>
    [] v.t = "nan" -> <<"n", "a", "n">>
    [] v.t = "str" -> v.s
    [] v.t = "none" -> <<"N", "o", "n", "e">>

IsFloatType(v) == v.t \in {"float", "nan", "inf"}

IsNumberType(v) == v.t = "int" \/ IsFloatType(v)

(***************************************************************************)
(* Cell classifier                                                         *)
(***************************************************************************)
\* value != value
_is_nan(value) == value.t = "nan"

DivErrorToken == <<"#", "D", "I", "V", "/", "0", "!">>

\* The string branch of normalize_cell, s the stripped string
NormalizeStripped(s) ==
  IF s = <<>> THEN None
  ELSE IF Lower(s) = <<"n", "a", "n">> THEN None
  ELSE IF s = DivErrorToken THEN StrCell(<<"0">>)
  ELSE IF s = <<"-">> THEN None
  ELSE StrCell(s)

normalize_cell(value) ==
  IF value.t = "none" THEN None
  ELSE IF _is_nan(value) THEN None
  ELSE IF value.t = "str" THEN The({NormalizeStripped(s) : s \in {Strip(value.s)}})
  ELSE value

\* A digitpart of a Python float literal: digits, single underscores between them
IsDigitPart(q) ==
  /\ q # <<>>
  /\ \A k \in DOMAIN q : q[k] \in Digits \/ q[k] = "_"
  /\ q[1] \in Digits /\ q[Len(q)] \in Digits
  /\ \A k \in 1..(Len(q) - 1) : ~(q[k] = "_" /\ q[k + 1] = "_")

OptionalDigitPart(q) == q = <<>> \/ IsDigitPart(q)

\* digitpart | [digitpart] "." [digitpart], with a digit somewhere
IsMantissa(q) ==
  \/ IsDigitPart(q)
  \/ \E p \in DOMAIN q :
       /\ q[p] = "."
       /\ Len(q) > 1
       /\ OptionalDigitPart(SubSeq(q, 1, p - 1))
       /\ OptionalDigitPart(SubSeq(q, p + 1, Len(q)))

Unsigned(q) == IF q # <<>> /\ q[1] \in {"+", "-"} THEN Tail(q) ELSE q

\* float(chars) succeeds
ParsesAsFloat(chars) ==
  \E q \in {Unsigned(Strip(chars))} :
    \/ Lower(q) \in {<<"i", "n", "f">>, <<"n", "a", "n">>, <<"i", "n", "f", "i", "n", "i", "t", "y">>}
    \/ IsMantissa(q)
    \/ \E p \in DOMAIN q :
         /\ q[p] \in {"e", "E"}
         /\ IsMantissa(SubSeq(q, 1, p - 1))
         /\ IsDigitPart(Unsigned(SubSeq(q, p + 1, Len(q))))

\* s.replace("R$", "").replace("$", "").strip()
\*  .replace(" ", "").replace(".", "").replace(",", ".").rstrip("%")
NumericCore(s) ==
  RStripChar(
    ReplaceAll(
      ReplaceAll(
        ReplaceAll(
          Strip(ReplaceAll(ReplaceAll(s, <<"R", "$">>, <<>>), <<"$">>, <<>>)),
          <<" ">>, <<>>),
        <<".">>, <<>>),
      <<",">>, <<".">>),
    "%")

is_numeric_like(value) ==
  \E v \in {normalize_cell(value)} :
    IF v.t = "none" THEN FALSE
    ELSE IF IsNumberType(v) THEN TRUE
    ELSE Strip(v.s) # <<>> /\ ParsesAsFloat(NumericCore(Strip(v.s)))

\* abs(v - int(v)) > 1e-9 of a finite float
HasFraction(v) == \E k \in DOMAIN v.s : v.s[k] # "0"

\* int(v) raises OverflowError on an infinite float
_numeric_has_decimal_raises(value) == normalize_cell(value).t = "inf"

_numeric_has_decimal(value) ==
  \E v \in {normalize_cell(value)} :
    IF v.t = "none" THEN FALSE
    ELSE IF v.t = "float" THEN HasFraction(v)
    ELSE IF v.t = "int" THEN FALSE
    ELSE IF v.t = "str" /\ is_numeric_like(v) THEN Contains(v.s, ".") \/ Contains(v.s, ",")
    ELSE FALSE

is_text_like(value) ==
  \E v \in {normalize_cell(value)} :
    IF v.t = "none" THEN FALSE
    ELSE IF v.t = "str" THEN \E k \in DOMAIN v.s : v.s[k] \in LatinLetters
    ELSE FALSE

\* chars starts with shape: "d" stands for \d, any other element for itself
StartsWithShape(chars, shape) ==
  /\ Len(chars) >= Len(shape)
  /\ \A k \in DOMAIN shape :
       IF shape[k] = "d" THEN chars[k] \in Digits ELSE chars[k] = shape[k]

FullShape(chars, shape) == Len(chars) = Len(shape) /\ StartsWithShape(chars, shape)

\* \d{2,4}
TwoToFourDigits == {<<"d", "d">>, <<"d", "d", "d">>, <<"d", "d", "d", "d">>}

MonthPrefixes ==
  {<<"j", "a", "n">>, <<"f", "e", "v">>, <<"m", "a", "r">>, <<"a", "b", "r">>, <<"m", "a", "i">>, <<"j", "u", "n">>,
   <<"j", "u", "l">>, <<"a", "g", "o">>, <<"s", "e", "t">>, <<"o", "u", "t">>, <<"n", "o", "v">>, <<"d", "e", "z">>}

\* The four date patterns, searched in the lower-cased string
MatchesDatePattern(low) ==
  \/ \E y \in TwoToFourDigits : FullShape(low, <<"d", "d", "/", "d", "d", "/">> \o y)
  \/ StartsWithShape(low, <<"d", "d", "d", "d", "-", "d", "d", "-", "d", "d">>)
  \/ \E y \in TwoToFourDigits : FullShape(low, <<"d", "d", "-", "d", "d", "-">> \o y)
  \/ \E m \in MonthPrefixes : StartsWith(low, m)

is_date_like(value) ==
  \E v \in {normalize_cell(value)} :
    IF v.t = "none" THEN FALSE
    ELSE IF v.t = "str" THEN \E low \in {Lower(v.s)} : MatchesDatePattern(low)
    ELSE FALSE

\* The positions of the cells of row that normalize to a value
NonEmptyPositions(row) == {k \in DOMAIN row : normalize_cell(row[k]).t # "none"}

non_empty_count(row) == Cardinality(NonEmptyPositions(row))

is_row_empty(row) == non_empty_count(row) = 0

(***************************************************************************)
(* Total rows                                                              *)
(***************************************************************************)
\* \w of the re module, over the model's alphabet
WordChars == LatinLetters \cup Digits \cup {"_"}

IsWordCharAt(h, k) == k \in DOMAIN h /\ h[k] \in WordChars

\* \b between positions k - 1 and k
BoundaryAt(h, k) == IsWordCharAt(h, k - 1) # IsWordCharAt(h, k)

WordAt(h, w, k) == k >= 1 /\ k + Len(w) - 1 <= Len(h) /\ SubSeq(h, k, k + Len(w) - 1) = w

\* re.search(r"\bw\b", h)
HasWord(h, w) ==
  \E k \in DOMAIN h : BoundaryAt(h, k) /\ WordAt(h, w, k) /\ BoundaryAt(h, k + Len(w))

\* re.search(r"\bw1\s+w2\b", h)
HasWordPair(h, w1, w2) ==
  \E k \in DOMAIN h : \E j \in DOMAIN h :
    /\ BoundaryAt(h, k) /\ WordAt(h, w1, k)
    /\ j > k + Len(w1)
    /\ \A m \in (k + Len(w1))..(j - 1) : h[m] \in WhiteSpace
    /\ WordAt(h, w2, j) /\ BoundaryAt(h, j + Len(w2))

\* re.search(r"\b(total|soma)\s*(:|=)", h)
HasLabelledTotal(h) ==
  \E w \in {<<"t", "o", "t", "a", "l">>, <<"s", "o", "m", "a">>} : \E k \in DOMAIN h : \E j \in DOMAIN h :
    /\ BoundaryAt(h, k) /\ WordAt(h, w, k)
    /\ j >= k + Len(w)
    /\ \A m \in (k + Len(w))..(j - 1) : h[m] \in WhiteSpace
    /\ h[j] \in {":", "="}

\* re.search(r"^total[:\s]", h)
StartsWithTotal(h) ==
  StartsWith(h, <<"t", "o", "t", "a", "l">>) /\ Len(h) > 5 /\ h[6] \in WhiteSpace \cup {":"}

total_patterns(head) ==
  \/ HasWord(head, <<"t", "o", "t", "a", "l">>)
  \/ HasWord(head, <<"s", "u", "b", "t", "o", "t", "a", "l">>)
  \/ HasWord(head, <<"t", "o", "t", "a", "i", "s">>)
  \/ HasWordPair(head, <<"t", "o", "t", "a", "l">>, <<"g", "e", "r", "a", "l">>)
  \/ HasWord(head, <<"g", "e", "r", "a", "l">>)
  \/ HasWord(head, <<"s", "o", "m", "a">>)
  \/ HasWord(head, <<"s", "u", "m">>)
  \/ HasWordPair(head, <<"g", "r", "a", "n", "d">>, <<"t", "o", "t", "a", "l">>)
  \/ HasLabelledTotal(head)
  \/ StartsWithTotal(head)
  \/ HasWord(head, <<"m", "U+00E9", "d", "i", "a">>)
  \/ HasWord(head, <<"a", "v", "e", "r", "a", "g", "e">>)

\* [str(n) for v in row if (n := normalize_cell(v)) is not None]
NonEmptyStrs(row) ==
  The({<<>> \o [k \in DOMAIN kept |-> PyStr(kept[k])] :
         kept \in {SelectSeq(<<>> \o [k \in DOMAIN row |-> normalize_cell(row[k])],
                             LAMBDA n : n.t # "none")}})

\* The numeric-majority fallback: at least 3 cells, 70% numeric, one text at most
NumericMajority(non_empty, numeric) ==
  non_empty >= 3 /\ 10 * numeric >= 7 * non_empty /\ non_empty - numeric <= 1

\* A total test that knows the keywords only.
looks_like_total_row_keywords_only(row) ==
  \E parts \in {NonEmptyStrs(row)} : \E head \in {Lower(JoinWith(parts, <<" ">>))} :
    parts # <<>> /\ total_patterns(head)

looks_like_total_row(row) ==
  \E parts \in {NonEmptyStrs(row)} : \E head \in {Lower(JoinWith(parts, <<" ">>))} :
    IF parts = <<>> THEN FALSE
    ELSE IF total_patterns(head) THEN TRUE
    ELSE IF Len(parts) < 2 THEN FALSE
    ELSE NumericMajority(
           Len(parts),
           Cardinality({k \in DOMAIN parts : is_numeric_like(StrCell(parts[k]))}))

(***************************************************************************)
(* Header detection engine.  A score is an integer number of               *)
(* 1/ScoreScale: the rates are fractions over the non-empty count, which   *)
(* divides 60 for every row of up to 6 non-empty cells, and the weights    *)
(* are tenths.                                                             *)
(***************************************************************************)
ScoreScale == 10 * 60

\* The thresholds 0.40, 0.45, 0.65 and 1.0 of the scores, and the clamp 2.0
CandidateThreshold == (40 * ScoreScale) \div 100

SpanThreshold == (45 * ScoreScale) \div 100

BlankHeaderThreshold == (65 * ScoreScale) \div 100

NewHeaderThreshold == ScoreScale

MaxScore == 2 * ScoreScale

\* header_score raises OverflowError: _numeric_has_decimal on an infinite float
header_score_raises(row) ==
  non_empty_count(row) >= 2 /\ \E k \in DOMAIN row : _numeric_has_decimal_raises(row[k])

\* A base score that adds the decimal rate's weight.
BaseScoreDecimalAdded(non_empty, text, uniq, numeric, decimal) ==
  ((18 * text + 7 * uniq - 8 * numeric + 25 * decimal) * ScoreScale) \div (10 * non_empty)

\* text_rate * 1.8 + unique_rate * 0.7 - numeric_rate * 0.8 - decimal_rate * 2.5
BaseScore(non_empty, text, uniq, numeric, decimal) ==
  ((18 * text + 7 * uniq - 8 * numeric - 25 * decimal) * ScoreScale) \div (10 * non_empty)

\* +0.2 if date_rate > 0.3
DateBonus(non_empty, date) ==
  IF 10 * date > 3 * non_empty THEN (2 * ScoreScale) \div 10 ELSE 0

\* -0.5 if decimal_rate > 0.2, -0.5 if numeric_rate > 0.7
DataPenalty(non_empty, numeric, decimal) ==
  (IF 10 * decimal > 2 * non_empty THEN (5 * ScoreScale) \div 10 ELSE 0)
    + (IF 10 * numeric > 7 * non_empty THEN (5 * ScoreScale) \div 10 ELSE 0)

\* A clamp that bounds the score from below only.
ClampBelowOnly(score) == Max(0, score)

\* max(0.0, min(2.0, score))
Clamp(score) == Max(0, Min(MaxScore, score))

\* The score of a row from its counts
ScoreFromCounts(non_empty, text, uniq, numeric, decimal, date) ==
  IF non_empty < 2 THEN 0
  ELSE Clamp(BaseScore(non_empty, text, uniq, numeric, decimal)
               + DateBonus(non_empty, date)
               - DataPenalty(non_empty, numeric, decimal))

\* The cells the loop of header_score counts: the normalized non-empty ones
NormalizedCells(row) ==
  SelectSeq(<<>> \o [k \in DOMAIN row |-> normalize_cell(row[k])], LAMBDA n : n.t # "none")

header_score(row) ==
  The({ScoreFromCounts(
         non_empty_count(row),
         Cardinality({k \in DOMAIN ns : ~is_date_like(ns[k]) /\ is_text_like(ns[k])}),
         Cardinality({Lower(Strip(PyStr(ns[k]))) : k \in DOMAIN ns}),
         Cardinality({k \in DOMAIN ns : is_numeric_like(ns[k])}),
         Cardinality({k \in DOMAIN ns : _numeric_has_decimal(ns[k])}),
         Cardinality({k \in DOMAIN ns : is_date_like(ns[k])})) :
       ns \in {NormalizedCells(row)}})

\* A propagation that fills every empty cell from the first cell of the row.
_propagate_from_first(row) ==
  <<>> \o [k \in DOMAIN row |->
             IF normalize_cell(row[k]).t = "none" /\ normalize_cell(row[1]).t # "none"
               THEN row[1] ELSE row[k]]

\* result[i] is row[i] when it is non-empty, else the last non-empty value
\* to its left, if any
_propagate_merged_header(row) ==
  The({<<>> \o [k \in DOMAIN row |->
                  IF \E j \in filled : j <= k
                    THEN row[MaxOf({j \in filled : j <= k})]
                    ELSE row[k]] :
         filled \in {NonEmptyPositions(row)}})

\* grid[r] of the 0-based row index r
RowAt(grid, r) == grid[r + 1]

RowOrEmpty(grid, r) == IF r >= 0 /\ r < Len(grid) THEN RowAt(grid, r) ELSE <<>>

\* The row of the caller after a propagation that writes into the row itself.
RowPropagatedInPlace(row) == _propagate_merged_header(row)

\* result = list(row): the row of the caller after _propagate_merged_header(row)
RowAfterPropagation(row) == row

\* The grid of the caller after build_header(grid, header_row_index, span)
GridAfterHeader(grid, header_row_index, span) ==
  <<>> \o [k \in DOMAIN grid |->
             IF k - 1 \in header_row_index..(header_row_index + span - 1)
               THEN RowAfterPropagation(grid[k])
               ELSE grid[k]]

CellOrNone(row, c) == IF c <= Len(row) THEN row[c] ELSE None

\* The parts of a column name: the non-empty normalized cells a, b, d, as
\* stripped strings that are not empty
NameParts(a, b, d) ==
  The({<<>> \o [k \in DOMAIN kept |-> Strip(PyStr(kept[k]))] :
         kept \in {SelectSeq(<<a, b, d>>,
                             LAMBDA x : x.t # "none" /\ Strip(PyStr(x)) # <<>>)}})

\* The joined name of column c (1-based) over the propagated header rows
HeaderName(row0, row1, row2, c) ==
  JoinWith(
    Dedup(NameParts(normalize_cell(CellOrNone(row0, c)),
                    normalize_cell(CellOrNone(row1, c)),
                    normalize_cell(CellOrNone(row2, c)))),
    <<" ">>)

\* h.strip() if h and h.strip() else f"col_{idx + 1}"
BaseOrPlaceholder(h, idx) ==
  The({IF hs # <<>> THEN hs ELSE <<"c", "o", "l", "_">> \o NatToStr(idx + 1) : hs \in {Strip(h)}})

\* base of column idx (0-based) before the names are made unique
HeaderBase(h, idx) ==
  Strip(CollapseRuns(CollapseRuns(BaseOrPlaceholder(h, idx), {"\n", "\r", "\t"}),
                     WhiteSpace))

\* seen[key] counts the columns of the same lower-cased base so far; the first
\* keeps its base, a later one gets the count as suffix
UniqueNames(bases) ==
  The({<<>> \o [k \in DOMAIN b |->
                  The({IF seen = 1 THEN b[k] ELSE b[k] \o <<"_">> \o NatToStr(seen) :
                         seen \in {Cardinality({j \in 1..k : Lower(b[j]) = Lower(b[k])})}})] :
         b \in {bases}})

\* The names of the columns of three propagated rows
HeaderNames(row0, row1, row2) ==
  UniqueNames(
    <<>> \o [c \in 1..Max(Len(row0), Max(Len(row1), Len(row2))) |->
               HeaderBase(HeaderName(row0, row1, row2, c), c - 1)])

\* The rows build_header joins: grid[header_row_index] and, within the span
\* and the grid, the one or two rows below it
HeaderRows(grid, header_row_index, span) ==
  <<RowOrEmpty(grid, header_row_index),
    IF span >= 2 THEN RowOrEmpty(grid, header_row_index + 1) ELSE <<>>,
    IF span >= 3 THEN RowOrEmpty(grid, header_row_index + 2) ELSE <<>> >>

\* The names build_header makes of three header rows
JoinedHeader(rows) ==
  HeaderNames(_propagate_merged_header(rows[1]), _propagate_merged_header(rows[2]),
              _propagate_merged_header(rows[3]))

SectionWords ==
  {<<"m", "U+00F3", "d", "u", "l", "o">>, <<"m", "o", "d", "u", "l", "o">>, <<"s", "e", "U+00E7", "U+00E3", "o">>, <<"s", "e", "c", "a", "o">>, <<"p", "a", "r", "t", "e">>, <<"b", "l", "o", "c", "o">>}

\* The first position from k on whose character is not in set
SkipChars(chars, k, set) ==
  The({IF rest = {} THEN Len(chars) + 1 ELSE MinOf(rest) :
         rest \in {{j \in k..Len(chars) : chars[j] \notin set}}})

\* re.search(r"^(módulo|modulo|seção|secao|parte|bloco)\s*\d", s, re.I)
IsNumberedSection(s) ==
  \E w \in SectionWords :
    /\ StartsWith(Lower(s), w)
    /\ \E k \in {SkipChars(s, Len(w) + 1, WhiteSpace)} : k <= Len(s) /\ s[k] \in Digits

\* re.search(r"^[A-Z]{2,}\s*[-–]\s*", s, re.I)
IsDashedTitle(s) ==
  \E k \in {SkipChars(s, 1, AsciiLetters)} :
    /\ k >= 3
    /\ \E j \in {SkipChars(s, k, WhiteSpace)} : j <= Len(s) /\ s[j] \in {"-", "U+2013"}

looks_like_section_title_row(row) ==
  \E first \in {normalize_cell(CellOrNone(row, 1))} :
    IF non_empty_count(row) = 0 THEN FALSE
    ELSE IF non_empty_count(row) > 2 THEN FALSE
    ELSE IF ~is_text_like(first) THEN FALSE
    ELSE IF \E first_str \in {Lower(PyStr(first))} :
              IsNumberedSection(first_str) \/ IsDashedTitle(first_str)
      THEN TRUE
    ELSE non_empty_count(IF Len(row) > 1 THEN Tail(row) ELSE <<>>) = 0

(***************************************************************************)
(* The rows of the input grids, and the row tests tabulated over them: a   *)
(* grid operation reads the test of a row from its table.                  *)
(***************************************************************************)
RowEmpty == <<None, StrCell(<<" ", " ">>), StrCell(<<"-">>)>>

RowHeader == <<StrCell(<<"I", "t", "e", "m">>), StrCell(<<"Q", "t", "d">>), StrCell(<<"V", "a", "l", "o", "r">>)>>

RowData == <<StrCell(<<"A", "n", "a">>), IntCell(30), FloatCell(1, <<"5">>)>>

RowTotal == <<StrCell(<<"T", "o", "t", "a", "l">>), StrCell(<<>>), IntCell(450)>>

RowTitle == <<StrCell(<<"V", "E", "N", "D", "A", "S", " ", "-", " ", "S", "U", "L">>), None, NaN>>

RowInf == <<Inf, FloatCell(2, <<"5">>), None>>

RowPool == {RowEmpty, RowHeader, RowData, RowTotal, RowTitle, RowInf}

\* Scenario A: leading empty rows, a header of distinct labels, data rows of a
\* text cell and an integer cell
RowNames == <<StrCell(<<"N", "o", "m", "e">>), StrCell(<<"I", "d", "a", "d", "e">>)>>

RowAna == <<StrCell(<<"A", "n", "a">>), IntCell(30)>>

RowBia == <<StrCell(<<"B", "i", "a">>), IntCell(25)>>

RowNones == <<None, None>>

RowNota == <<StrCell(<<"B", "i", "a">>), FloatCell(7, <<"5">>)>>

\* A cleaning that leaves out the cells that are empty.
CleanRowPacked(row, width) ==
  SelectSeq(<<>> \o [c \in 1..width |-> normalize_cell(CellOrNone(row, c))],
            LAMBDA x : x.t # "none")

\* [normalize_cell(row[c] if c < len(row) else None) for c in range(len(columns))]
CleanRow(row, width) == <<>> \o [c \in 1..width |-> normalize_cell(CellOrNone(row, c))]

\* Header rows whose labels collide, span merged cells, differ in case or
\* start with an empty cell
HeaderRowPool ==
  {<<StrCell(<<"A">>), StrCell(<<"A">>), StrCell(<<"A", "_", "2">>)>>,
   <<StrCell(<<"V", "e", "n", "d", "a", "s">>), None, None>>,
   <<StrCell(<<"Q", "t", "d">>), StrCell(<<"P", "r", "e", "U+00E7", "o">>), StrCell(<<"T", "o", "t", "a", "l">>)>>,
   <<StrCell(<<"a">>), StrCell(<<" ", "A", " ">>), IntCell(2)>>,
   <<None, StrCell(<<"Q", "t", "d">>), None>>}

\* The rows of the grids, and the rows the extraction makes of them
RawRows == RowPool \cup {RowNames, RowAna, RowBia, RowNones, RowNota, <<>>}

KnownRows == RawRows \cup {CleanRow(row, Len(row)) : row \in RawRows}

EmptyTable == [row \in KnownRows |-> is_row_empty(row)]

RaisesTable == [row \in KnownRows |-> header_score_raises(row)]

ScoreTable ==
  [row \in KnownRows |-> IF header_score_raises(row) THEN 0 ELSE header_score(row)]

TitleTable == [row \in KnownRows |-> looks_like_section_title_row(row)]

TotalTable == [row \in KnownRows |-> looks_like_total_row(row)]

\* The header rows of the grids: up to three rows of one family
HeaderTriples ==
  UNION {{<<a, b, c>> : a \in F \cup {<<>>}, b \in F \cup {<<>>}, c \in F \cup {<<>>}} :
           F \in {RowPool, {RowNames, RowAna, RowBia, RowNones, RowNota}, HeaderRowPool}}

HeaderTable == [rows \in HeaderTriples |-> JoinedHeader(rows)]

\* build_header(grid, header_row_index, span): the names of its header rows,
\* read from the table
build_header(grid, header_row_index, span) ==
  HeaderTable[HeaderRows(grid, header_row_index, span)]

IsEmptyRow(row) == EmptyTable[row]

ScoreRaises(row) == RaisesTable[row]

ScoreOf(row) == ScoreTable[row]

IsTitleRow(row) == TitleTable[row]

IsTotalRow(row) == TotalTable[row]

\* The rows find_next_header examines from start_row
ScanWindow == 300

NoHeader == [rowIndex |-> -1, span |-> 0]

\* A span that takes the third row without looking at the second.
SpanOfUnchained(s1, s2) ==
  IF s2 > SpanThreshold THEN 3 ELSE IF s1 > SpanThreshold THEN 2 ELSE 1

\* span of a candidate whose next two rows score s1 and s2
SpanOf(s1, s2) == IF s1 > SpanThreshold THEN (IF s2 > SpanThreshold THEN 3 ELSE 2) ELSE 1

\* s0 + (s1 * 0.3 if span >= 2 else 0) + (s2 * 0.15 if span == 3 else 0),
\* in 1/(100 * ScoreScale)
CompositeScore(s0, s1, s2, span) ==
  100 * s0 + (IF span >= 2 THEN 30 * s1 ELSE 0) + (IF span = 3 THEN 15 * s2 ELSE 0)

\* The candidate of row r: its span and composite score
Candidate(grid, r) ==
  The({[rowIndex |-> r,
        span |-> SpanOf(s[2], s[3]),
        score |-> CompositeScore(s[1], s[2], s[3], SpanOf(s[2], s[3]))] :
         s \in {<<ScoreOf(RowAt(grid, r)), ScoreOf(RowOrEmpty(grid, r + 1)),
                  ScoreOf(RowOrEmpty(grid, r + 2))>>}})

\* A replacement rule that lets a later candidate of equal score win.
BetterOrEqual(best, cand) ==
  IF best.rowIndex = -1 \/ cand.score >= best.score THEN cand ELSE best

\* if best is None or score > best["score"]: best = ...
Better(best, cand) ==
  IF best.rowIndex = -1 \/ cand.score > best.score THEN cand ELSE best

RECURSIVE ScanHeaders(_, _, _, _)
\* The for loop of find_next_header over the rows r .. scan_limit - 1 in
\* order, with the best candidate so far: one iteration for one row, and for
\* more rows the iterations of the first half and then those of the second
ScanHeaders(grid, r, scan_limit, best) ==
  IF r >= scan_limit THEN best
  ELSE IF scan_limit - r > 1
    THEN The({ScanHeaders(grid, r + (scan_limit - r) \div 2, scan_limit, b) :
                b \in {ScanHeaders(grid, r, r + (scan_limit - r) \div 2, best)}})
  ELSE IF IsEmptyRow(RowAt(grid, r)) THEN best
  ELSE IF ScoreOf(RowAt(grid, r)) <= CandidateThreshold THEN best
  ELSE Better(best, Candidate(grid, r))

\* {"rowIndex": best["rowIndex"], "span": best["span"]}, None as NoHeader
WithoutScore(best) == [rowIndex |-> best.rowIndex, span |-> best.span]

\* A header search that stops at the first candidate.
find_first_header(grid, start_row) ==
  The({IF cands = {} THEN NoHeader
       ELSE WithoutScore(Candidate(grid, MinOf(cands))) :
         cands \in {{r \in start_row..(Min(Len(grid), start_row + ScanWindow) - 1) :
                       ~IsEmptyRow(RowAt(grid, r))
                         /\ ScoreOf(RowAt(grid, r)) > CandidateThreshold}}})

\* A header search over all the rows from start_row.
find_next_header_unbounded(grid, start_row) ==
  WithoutScore(ScanHeaders(grid, start_row, Len(grid),
                           [rowIndex |-> -1, span |-> 0, score |-> 0]))

find_next_header(grid, start_row) ==
  WithoutScore(ScanHeaders(grid, start_row, Min(Len(grid), start_row + ScanWindow),
                           [rowIndex |-> -1, span |-> 0, score |-> 0]))

\* find_next_header raises: a row it scores holds an infinite float
find_next_header_raises(grid, start_row) ==
  \E r \in start_row..(Min(Len(grid), start_row + ScanWindow) - 1) :
    /\ ~IsEmptyRow(RowAt(grid, r))
    /\ \/ ScoreRaises(RowAt(grid, r))
       \/ /\ ScoreOf(RowAt(grid, r)) > CandidateThreshold
          /\ \/ ScoreRaises(RowOrEmpty(grid, r + 1))
             \/ ScoreRaises(RowOrEmpty(grid, r + 2))

(***************************************************************************)
(* Block segmentation engine: detect_blocks as a state machine             *)
(***************************************************************************)
VARIABLES
  sheets,        \* the input: the (name, grid) items of the dict, in order
  sheet_idx,     \* how many sheets the for loop has taken
  grid,          \* the grid of the current sheet
  pc,            \* "sheet", "outer", "extend", "emit", "done", "error"
  cursor, header_row_index, header_span, columns,
  data_start, data_end, r, blank_skips,
  blocks,        \* the blocks of the current sheet
  result         \* the (name, blocks) items of the returned dict, in order

\* The cell a normalize_cell call is given, what it returns, and what a second
\* call returns for that
VARIABLES cell_in, cell_out, cell_twice

\* A call of a function on its own: its arguments, and what it returns
VARIABLES args, ret

vars ==
  <<sheets, sheet_idx, grid, pc, cursor, header_row_index, header_span, columns,
    data_start, data_end, r, blank_skips, blocks, result, cell_in, cell_out, cell_twice,
    args, ret>>

candidateVars ==
  <<header_row_index, header_span, columns, data_start, data_end, r, blank_skips>>

cellVars == <<cell_in, cell_out, cell_twice>>

\* The arguments of a call of one of the other functions, and what it returns
callVars == <<args, ret>>

\* The first row from k on that is not empty: while k < len(grid) and
\* is_row_empty(grid[k]): k += 1
SkipEmptyRows(g, k) ==
  The({IF rest = {} THEN Max(k, Len(g)) ELSE MinOf(rest) :
         rest \in {{j \in k..(Len(g) - 1) : ~IsEmptyRow(RowAt(g, j))}}})

\* A total test that no row passes.
NeverRemoved(row) == FALSE

\* The data rows the extraction loop counts and drops as totals
IsRemovedTotal(row) == ~IsEmptyRow(row) /\ IsTotalRow(row)

\* The rows of the range the extraction loop keeps
\* A filter that keeps only the rows without an empty cell.
IsFullRow(row, width) ==
  ~IsEmptyRow(row) /\ ~IsRemovedTotal(row) /\ non_empty_count(CleanRow(row, width)) = width

IsKeptRow(row, width) ==
  ~IsEmptyRow(row) /\ ~IsRemovedTotal(row) /\ non_empty_count(CleanRow(row, width)) > 0

RECURSIVE ExtractRows(_, _, _, _)
\* rows of the range [rr, last]: lines 405-417
ExtractRows(g, width, rr, last) ==
  IF rr > last THEN <<>>
  ELSE (IF IsKeptRow(RowAt(g, rr), width) THEN <<CleanRow(RowAt(g, rr), width)>> ELSE <<>>)
         \o ExtractRows(g, width, rr + 1, last)

RemovedTotals(g, first, last) ==
  Cardinality({rr \in first..last : IsRemovedTotal(RowAt(g, rr))})

NextSheet ==
  /\ pc = "sheet"
  /\ sheet_idx < Len(sheets)
  /\ sheet_idx' = sheet_idx + 1
  /\ grid' = sheets[sheet_idx + 1].grid
  /\ blocks' = <<>>
  /\ cursor' = 0
  /\ pc' = "outer"
  /\ UNCHANGED <<sheets, candidateVars, result, cellVars, callVars>>

Return ==
  /\ pc = "sheet"
  /\ sheet_idx = Len(sheets)
  /\ pc' = "done"
  /\ UNCHANGED <<sheets, sheet_idx, grid, cursor, candidateVars, blocks, result, cellVars, callVars>>

\* The while loop of a sheet ends (its condition fails, or the break after the
\* empty rows): result[sheet_name] = blocks
FinishSheet ==
  /\ pc = "outer"
  /\ \E c \in {SkipEmptyRows(grid, cursor)} :
       /\ c >= Len(grid)
       /\ cursor' = c
  /\ result' = Append(result, [name |-> sheets[sheet_idx].name, blocks |-> blocks])
  /\ pc' = "sheet"
  /\ UNCHANGED <<sheets, sheet_idx, grid, candidateVars, blocks, cellVars, callVars>>

\* find_next_header raises inside the call of line 351
HeaderSearchRaises ==
  /\ pc = "outer"
  /\ \E c \in {SkipEmptyRows(grid, cursor)} :
       /\ c < Len(grid)
       /\ find_next_header_raises(grid, c)
       /\ cursor' = c
  /\ pc' = "error"
  /\ UNCHANGED <<sheets, sheet_idx, grid, candidateVars, blocks, result, cellVars, callVars>>

\* A step that leaves the cursor where the search started.
StayAtRow(c) == c

\* cursor += 1 after a search that found no header
AdvancePastRow(c) == c + 1

NoHeaderFound ==
  /\ pc = "outer"
  /\ \E c \in {SkipEmptyRows(grid, cursor)} :
       /\ c < Len(grid)
       /\ ~find_next_header_raises(grid, c)
       /\ find_next_header(grid, c) = NoHeader
       /\ cursor' = AdvancePastRow(c)
  /\ UNCHANGED <<sheets, sheet_idx, grid, pc, candidateVars, blocks, result, cellVars, callVars>>

\* A data range that starts on the last header row.
DataStartOnHeader(g, header) == SkipEmptyRows(g, header.rowIndex + header.span - 1)

\* data_start: the first non-empty row after the header span
DataStart(g, header) == SkipEmptyRows(g, header.rowIndex + header.span)

HeaderFound ==
  /\ pc = "outer"
  /\ \E c \in {SkipEmptyRows(grid, cursor)} :
       /\ c < Len(grid)
       /\ ~find_next_header_raises(grid, c)
       /\ \E header \in {find_next_header(grid, c)} :
            /\ header # NoHeader
            /\ cursor' = c
            /\ header_row_index' = header.rowIndex
            /\ header_span' = header.span
            /\ columns' = build_header(grid, header.rowIndex, header.span)
            /\ grid' = GridAfterHeader(grid, header.rowIndex, header.span)
            /\ \E start \in {DataStart(grid, header)} :
                 /\ data_start' = start
                 /\ data_end' = start - 1
                 /\ r' = start
            /\ blank_skips' = 0
  /\ pc' = "extend"
  /\ UNCHANGED <<sheets, sheet_idx, blocks, result, cellVars, callVars>>

\* The inner while loop, lines 368-401, one iteration a step
ExtendExhausted ==
  /\ pc = "extend"
  /\ r >= Len(grid)
  /\ pc' = "emit"
  /\ UNCHANGED <<sheets, sheet_idx, grid, cursor, candidateVars, blocks, result, cellVars, callVars>>

\* A section test that lets a title end the block right after its first row.
IsSectionBreakEarly(g, row_r, start) == IsTitleRow(RowAt(g, row_r)) /\ row_r > start

\* looks_like_section_title_row(row) and r > data_start + 1
IsSectionBreak(g, row_r, start) == IsTitleRow(RowAt(g, row_r)) /\ row_r > start + 1

SectionTitleBreak ==
  /\ pc = "extend"
  /\ r < Len(grid)
  /\ IsSectionBreak(grid, r, data_start)
  /\ data_end' = r - 1
  /\ pc' = "emit"
  /\ UNCHANGED <<sheets, sheet_idx, grid, cursor, header_row_index, header_span,
                 columns, data_start, r, blank_skips, blocks, result, cellVars, callVars>>

\* The blank runs a block tolerates, and their greatest length
MaxBlankSkips == 3

MaxBlankSpan == 3

\* header_score(next_row) > 0.65 if next_row is not None else False
NextLooksHeader(g, k) ==
  IF k < Len(g) THEN ScoreOf(RowAt(g, k)) > BlankHeaderThreshold ELSE FALSE

\* A tolerance of blank runs of one row only.
BlankToleratedSingle(g, row_r, k, skips) ==
  (~NextLooksHeader(g, k)) /\ k - row_r <= 1 /\ skips < MaxBlankSkips

\* A tolerance that grants one blank run more.
BlankToleratedOnceMore(g, row_r, k, skips) ==
  (~NextLooksHeader(g, k)) /\ k - row_r <= MaxBlankSpan /\ skips <= MaxBlankSkips

\* (not next_looks_header) and blank_span <= 3 and blank_skips < 3, the blank
\* run starting at row_r and ending before k
BlankTolerated(g, row_r, k, skips) ==
  (~NextLooksHeader(g, k)) /\ k - row_r <= MaxBlankSpan /\ skips < MaxBlankSkips

BlankTolerate ==
  /\ pc = "extend"
  /\ r < Len(grid)
  /\ ~IsSectionBreak(grid, r, data_start)
  /\ IsEmptyRow(RowAt(grid, r))
  /\ \E k \in {SkipEmptyRows(grid, r)} :
       /\ BlankTolerated(grid, r, k, blank_skips)
       /\ r' = k
  /\ blank_skips' = blank_skips + 1
  /\ UNCHANGED <<sheets, sheet_idx, grid, pc, cursor, header_row_index, header_span,
                 columns, data_start, data_end, blocks, result, cellVars, callVars>>

BlankBreak ==
  /\ pc = "extend"
  /\ r < Len(grid)
  /\ ~IsSectionBreak(grid, r, data_start)
  /\ IsEmptyRow(RowAt(grid, r))
  /\ \E k \in {SkipEmptyRows(grid, r)} :
       /\ ~BlankTolerated(grid, r, k, blank_skips)
       /\ r' = k
  /\ data_end' = r - 1
  /\ pc' = "emit"
  /\ UNCHANGED <<sheets, sheet_idx, grid, cursor, header_row_index, header_span,
                 columns, data_start, blank_skips, blocks, result, cellVars, callVars>>

\* potential_header > 1.0 and r > data_start + 2
IsNewHeader(g, row_r, start) ==
  ScoreOf(RowAt(g, row_r)) > NewHeaderThreshold /\ row_r > start + 2

NewHeaderBreak ==
  /\ pc = "extend"
  /\ r < Len(grid)
  /\ ~IsSectionBreak(grid, r, data_start)
  /\ ~IsEmptyRow(RowAt(grid, r))
  /\ IsNewHeader(grid, r, data_start)
  /\ data_end' = r - 1
  /\ pc' = "emit"
  /\ UNCHANGED <<sheets, sheet_idx, grid, cursor, header_row_index, header_span,
                 columns, data_start, r, blank_skips, blocks, result, cellVars, callVars>>

DataRow ==
  /\ pc = "extend"
  /\ r < Len(grid)
  /\ ~IsSectionBreak(grid, r, data_start)
  /\ ~IsEmptyRow(RowAt(grid, r))
  /\ ~IsNewHeader(grid, r, data_start)
  /\ data_end' = r
  /\ r' = r + 1
  /\ UNCHANGED <<sheets, sheet_idx, grid, pc, cursor, header_row_index, header_span,
                 columns, data_start, blank_skips, blocks, result, cellVars, callVars>>

\* Lines 403-431: the rows of the candidate block, the block when it has rows,
\* and the cursor for the next search
CandidateRows(g, cols, first, last) ==
  IF last >= first THEN ExtractRows(g, Len(cols), first, last) ELSE <<>>

CandidateTotals(g, first, last) ==
  IF last >= first THEN RemovedTotals(g, first, last) ELSE 0

\* An emission that takes every candidate, with or without rows.
KeepsEveryBlock(rows) == TRUE

\* if rows:
KeepsBlock(rows) == rows # <<>>

\* A cursor that resumes right after the header row.
CursorAfterHeader(row_r, last) == header_row_index + 1

\* cursor = max(r, data_end + 1)
NextCursor(row_r, last) == Max(row_r, last + 1)

EmitBlock ==
  /\ pc = "emit"
  /\ \E rows \in {CandidateRows(grid, columns, data_start, data_end)} :
       /\ KeepsBlock(rows)
       /\ blocks' = Append(blocks,
                           [header_row |-> header_row_index,
                            header_span |-> header_span,
                            data_start |-> data_start,
                            data_end |-> data_end,
                            columns |-> columns,
                            rows |-> rows,
                            removed_totals |-> CandidateTotals(grid, data_start, data_end)])
  /\ cursor' = NextCursor(r, data_end)
  /\ pc' = "outer"
  /\ UNCHANGED <<sheets, sheet_idx, grid, candidateVars, result, cellVars, callVars>>

DiscardCandidate ==
  /\ pc = "emit"
  /\ ~KeepsBlock(CandidateRows(grid, columns, data_start, data_end))
  /\ cursor' = NextCursor(r, data_end)
  /\ pc' = "outer"
  /\ UNCHANGED <<sheets, sheet_idx, grid, candidateVars, blocks, result, cellVars, callVars>>

(***************************************************************************)
(* Inputs of detect_blocks                                                 *)
(***************************************************************************)
\* The longest grid of the sheets
MaxRows == 5

SeqsUpTo(S, n) == UNION {[1..m -> S] : m \in 0..n}

ScenarioAGrids ==
  {lead \o <<RowNames>> \o data :
     lead \in {<<>>, <<RowNones>>},
     data \in {<<RowAna>>, <<RowAna, RowBia>>, <<RowBia, RowAna>>, <<RowAna, RowBia, RowAna>>}}

\* The most rows below the first data row of a table with blank runs
MaxTail == 7

\* A header and a data row, then data rows and blank rows in any order
BlankRunGrids ==
  {<<RowHeader, RowData>> \o tail : tail \in SeqsUpTo({RowEmpty, RowData}, MaxTail)}

Grids == SeqsUpTo(RowPool, MaxRows) \cup ScenarioAGrids \cup BlankRunGrids

\* The grids of a workbook of two sheets
SmallGrids == {<<>>, <<RowHeader, RowData>>, <<RowNames, RowNota>>}

SheetMaps ==
  {<<>>}
    \cup {<<[name |-> "S1", grid |-> g]>> : g \in Grids}
    \cup {<<[name |-> "S1", grid |-> g], [name |-> "S2", grid |-> h]>> :
            g \in SmallGrids, h \in SmallGrids}

Init ==
  /\ sheets \in SheetMaps
  /\ sheet_idx = 0
  /\ grid = <<>>
  /\ pc = "sheet"
  /\ cursor = 0
  /\ header_row_index = -1
  /\ header_span = 0
  /\ columns = <<>>
  /\ data_start = 0
  /\ data_end = -1
  /\ r = 0
  /\ blank_skips = 0
  /\ blocks = <<>>
  /\ result = <<>>
  /\ cell_in = None
  /\ cell_out = None
  /\ cell_twice = None
  /\ args = <<>>
  /\ ret = <<>>

Next ==
  \/ NextSheet
  \/ Return
  \/ FinishSheet
  \/ HeaderSearchRaises
  \/ NoHeaderFound
  \/ HeaderFound
  \/ ExtendExhausted
  \/ SectionTitleBreak
  \/ BlankTolerate
  \/ BlankBreak
  \/ NewHeaderBreak
  \/ DataRow
  \/ EmitBlock
  \/ DiscardCandidate

Spec == Init /\ [][Next]_vars

\* The loop's scheduling: a call of detect_blocks keeps running until it
\* returns or raises
FairSpec == Spec /\ WF_vars(Next)

(***************************************************************************)
(* normalize_cell on its own: a cell, what the call returns for it, and    *)
(* what a second call returns for that                                     *)
(***************************************************************************)
\* The longest run of whitespace around a string cell
MaxPad == 2

Pads == SeqsUpTo({" ", "\t"}, MaxPad)

CellCores ==
  {<<>>, <<"n", "a", "n">>, <<"N", "a", "N">>, <<"-">>, DivErrorToken, <<"#", "d", "i", "v", "/", "0", "!">>, <<"a", "b", "c">>, <<"a", " ", "b">>,
   <<"0">>, <<"-", "-">>, <<"n", " ", "a", "n">>}

RawCells ==
  {None, NaN, Inf, IntCell(0), IntCell(30), IntCell(-7), FloatCell(1, <<"5">>)}
    \cup {StrCell(lead \o core \o trail) : lead \in Pads, core \in CellCores, trail \in Pads}

InitCell ==
  /\ sheets = <<>>
  /\ sheet_idx = 0
  /\ grid = <<>>
  /\ pc = "cell"
  /\ cursor = 0
  /\ header_row_index = -1
  /\ header_span = 0
  /\ columns = <<>>
  /\ data_start = 0
  /\ data_end = -1
  /\ r = 0
  /\ blank_skips = 0
  /\ blocks = <<>>
  /\ result = <<>>
  /\ cell_in \in RawCells
  /\ cell_out = None
  /\ cell_twice = None
  /\ args = <<>>
  /\ ret = <<>>

NormalizeOnce ==
  /\ pc = "cell"
  /\ cell_out' = normalize_cell(cell_in)
  /\ pc' = "cell_once"
  /\ UNCHANGED <<sheets, sheet_idx, grid, cursor, candidateVars, blocks, result,
                 cell_in, cell_twice, callVars>>

NormalizeTwice ==
  /\ pc = "cell_once"
  /\ cell_twice' = normalize_cell(cell_out)
  /\ pc' = "cell_twice"
  /\ UNCHANGED <<sheets, sheet_idx, grid, cursor, candidateVars, blocks, result,
                 cell_in, cell_out, callVars>>

NextCell ==
  \/ NormalizeOnce
  \/ NormalizeTwice

SpecCell == InitCell /\ [][NextCell]_vars

(***************************************************************************)
(* build_header on its own: a grid, a header position and a span           *)
(***************************************************************************)
\* The longest grid build_header is given
MaxHeaderRows == 3

HeaderGrids == UNION {[1..m -> HeaderRowPool] : m \in 1..MaxHeaderRows}

InitHeader ==
  /\ sheets = <<>>
  /\ sheet_idx = 0
  /\ grid \in HeaderGrids
  /\ pc = "header"
  /\ cursor = 0
  /\ header_row_index \in 0..(Len(grid) - 1)
  /\ header_span \in 1..3
  /\ columns = <<>>
  /\ data_start = 0
  /\ data_end = -1
  /\ r = 0
  /\ blank_skips = 0
  /\ blocks = <<>>
  /\ result = <<>>
  /\ cell_in = None
  /\ cell_out = None
  /\ cell_twice = None
  /\ args = <<>>
  /\ ret = <<>>

BuildHeader ==
  /\ pc = "header"
  /\ columns' = build_header(grid, header_row_index, header_span)
  /\ grid' = GridAfterHeader(grid, header_row_index, header_span)
  /\ pc' = "header_done"
  /\ UNCHANGED <<sheets, sheet_idx, cursor, header_row_index, header_span,
                 data_start, data_end, r, blank_skips, blocks, result, cellVars, callVars>>

NextHeader == BuildHeader

SpecHeader == InitHeader /\ [][NextHeader]_vars

(***************************************************************************)
(* Properties of detect_blocks                                             *)
(***************************************************************************)
\* The grids scanned so far, each with the blocks found in it: the sheets of
\* result, and the sheet the loop is in
Scanned ==
  {[grid |-> sheets[i].grid, blocks |-> result[i].blocks] : i \in 1..Len(result)}
    \cup {[grid |-> grid, blocks |-> blocks]}

\* The labels of a header row of strings
Labels(row) == <<>> \o [c \in DOMAIN row |-> row[c].s]

\* The grid rows a block covers: its header span and its data range
RowsOf(block) ==
  (block.header_row..(block.header_row + block.header_span - 1))
    \cup (block.data_start..block.data_end)

\* C1: on a single-table grid of optional leading empty rows, one header row
\* of distinct text labels and data rows that each mix a text cell with an
\* integer cell, detect_blocks returns exactly one block for the sheet, whose
\* columns are the header row's labels and whose rows are all the data rows
\* below the header.
C1_ScenarioAOneBlock ==
  (pc = "done" /\ Len(sheets) = 1 /\ sheets[1].grid \in ScenarioAGrids) =>
    /\ Len(result) = 1
    /\ Len(result[1].blocks) = 1
    /\ result[1].blocks[1].columns = Labels(RowNames)
    /\ result[1].blocks[1].rows =
         SelectSeq(sheets[1].grid, LAMBDA row : row \in {RowAna, RowBia})

\* C2: the list build_header returns holds no two equal strings, for every
\* grid, header position and span of 1 to 3, also when a raw label already
\* has the form of a generated name ("A", "A", "A_2").
C2_ColumnNamesDistinct ==
  pc = "header_done" =>
    \A i \in DOMAIN columns : \A j \in DOMAIN columns :
      i # j => columns[i] # columns[j]

\* C3: in every emitted block, every row of rows has exactly len(columns)
\* cells.
C3_RowsMatchColumns ==
  \A sb \in Scanned : \A k \in DOMAIN sb.blocks :
    \A j \in DOMAIN sb.blocks[k].rows :
      Len(sb.blocks[k].rows[j]) = Len(sb.blocks[k].columns)

\* A workbook is done whose sheets gave a block of two columns and a block of
\* three
C3_BlocksOfTwoWidths ==
  /\ pc = "done"
  /\ \E sb \in Scanned : \E k \in DOMAIN sb.blocks :
       Len(sb.blocks[k].columns) = 2 /\ Len(sb.blocks[k].rows[1]) = 2
  /\ \E sb \in Scanned : \E k \in DOMAIN sb.blocks :
       Len(sb.blocks[k].columns) = 3 /\ Len(sb.blocks[k].rows[1]) = 3

\* C4: no emitted block holds in rows a fully-empty row or a row that
\* looks_like_total_row accepts; removed_totals counts the rows of the data
\* range [data_start, data_end] classified as totals, one each, and those rows
\* are left out of rows.
C4_NoEmptyNoTotalRows ==
  \A sb \in Scanned : \A k \in DOMAIN sb.blocks :
    /\ \A j \in DOMAIN sb.blocks[k].rows :
         ~is_row_empty(sb.blocks[k].rows[j]) /\ ~IsTotalRow(sb.blocks[k].rows[j])
    /\ sb.blocks[k].removed_totals =
         Cardinality({rr \in sb.blocks[k].data_start..sb.blocks[k].data_end :
                        IsTotalRow(RowAt(sb.grid, rr))})
    /\ Len(sb.blocks[k].rows) <=
         Cardinality({rr \in sb.blocks[k].data_start..sb.blocks[k].data_end :
                        ~IsTotalRow(RowAt(sb.grid, rr))})

\* A block whose data range held the row ["Total", "", 450] among rows it kept
C4_TotalRowRemoved ==
  \E sb \in Scanned : \E k \in DOMAIN sb.blocks :
    /\ sb.blocks[k].removed_totals = 1
    /\ Len(sb.blocks[k].rows) >= 1
    /\ \E rr \in sb.blocks[k].data_start..sb.blocks[k].data_end :
         RowAt(sb.grid, rr) = RowTotal

\* C5: the blocks of a sheet are listed top to bottom and never overlap: a
\* block's header_row is greater than the data_end and the last header row of
\* the block before it, and no grid row lies in the header span or data range
\* of two blocks.
C5_BlocksInOrder ==
  \A sb \in Scanned :
    /\ \A k \in 1..(Len(sb.blocks) - 1) :
         /\ sb.blocks[k + 1].header_row > sb.blocks[k].data_end
         /\ sb.blocks[k + 1].header_row >
              sb.blocks[k].header_row + sb.blocks[k].header_span - 1
    /\ \A k \in DOMAIN sb.blocks : \A m \in DOMAIN sb.blocks :
         k # m => RowsOf(sb.blocks[k]) \cap RowsOf(sb.blocks[m]) = {}

\* A sheet that gave two blocks
C5_TwoBlocksInSheet ==
  \E sb \in Scanned : Len(sb.blocks) = 2 /\ sb.blocks[1] # sb.blocks[2]

\* C6: every emitted block has at least one row, data_start <= data_end,
\* header_row + header_span <= data_start, a header_span of 1 to 3 and a
\* data_end that is a row index of the grid; a candidate without a surviving
\* row is not among the blocks.
C6_BlocksWellFormed ==
  \A sb \in Scanned : \A k \in DOMAIN sb.blocks :
    /\ Len(sb.blocks[k].rows) >= 1
    /\ sb.blocks[k].data_start <= sb.blocks[k].data_end
    /\ sb.blocks[k].header_row + sb.blocks[k].header_span <= sb.blocks[k].data_start
    /\ sb.blocks[k].header_span \in 1..3
    /\ sb.blocks[k].data_end \in 0..(Len(sb.grid) - 1)
    /\ sb.blocks[k].header_row >= 0

\* A block is emitted and the candidate found after it has been discarded
C6_CandidateDiscardedAfterBlock ==
  /\ pc = "outer"
  /\ Len(blocks) = 1
  /\ header_row_index > blocks[1].data_end

\* C7: detect_blocks terminates on every finite grid: the call returns or
\* raises; an outer iteration strictly increases the cursor (by a row when no
\* header is found, otherwise to max(r, data_end + 1), beyond the header row);
\* an inner iteration strictly increases r or leaves the loop; and the scan of
\* a sheet ends with the cursor at len(grid) or beyond.
C7_Terminates ==
  /\ <>(pc \in {"done", "error"})
  /\ [][/\ (pc = "outer" /\ pc' = "outer") => cursor' > cursor
        /\ (pc = "outer" /\ pc' = "extend") => cursor' >= cursor
        /\ pc = "emit" => (cursor' > cursor /\ cursor' > header_row_index)
        /\ pc = "extend" => (r' > r \/ pc' = "emit")
        /\ (pc = "outer" /\ pc' = "sheet") => cursor' >= Len(grid)]_vars

\* A call has returned after a block whose data range tolerated a blank run
C7_ReturnedAfterBothLoops ==
  /\ pc = "done"
  /\ blank_skips > 0
  /\ cursor = Len(grid)
  /\ \E i \in DOMAIN result : Len(result[i].blocks) > 0

\* C8: detect_blocks never ends in an error state, and its result maps every
\* input sheet name to a list of blocks.
C8_NeverRaises ==
  /\ pc # "error"
  /\ pc = "done" =>
       /\ Len(result) = Len(sheets)
       /\ \A i \in DOMAIN sheets : result[i].name = sheets[i].name

(***************************************************************************)
(* Properties of normalize_cell                                            *)
(***************************************************************************)
\* C9: normalize_cell is idempotent over raw cells (null, NaN, int, float,
\* string): normalize_cell(normalize_cell(x)) = normalize_cell(x).
C9_NormalizeIdempotent == pc = "cell_twice" => cell_twice = cell_out

\* A padded string cell has been normalized twice, the first call changing it
C9_PaddedStringNormalizedTwice ==
  /\ pc = "cell_twice"
  /\ cell_in.t = "str"
  /\ cell_out.t = "str"
  /\ cell_out # cell_in

\* C10: normalize_cell maps "#DIV/0!" to the number 0, maps null, NaN, blank
\* after trim, "nan" and "-" to empty, trims other strings and passes numbers
\* through unchanged.
C10_DivErrorIsNumberZero ==
  pc = "cell_once" =>
    IF cell_in.t = "none" \/ cell_in.t = "nan" THEN cell_out = None
    ELSE IF cell_in.t # "str" THEN cell_out = cell_in
    ELSE IF Strip(cell_in.s) = DivErrorToken THEN cell_out = IntCell(0)
    ELSE IF Strip(cell_in.s) = <<>> \/ Lower(Strip(cell_in.s)) = <<"n", "a", "n">>
              \/ Strip(cell_in.s) = <<"-">>
      THEN cell_out = None
    ELSE cell_out = StrCell(Strip(cell_in.s))

(***************************************************************************)
(* header_score on its own: a row, and the score or the exception          *)
(***************************************************************************)
\* No workbook is being scanned and no cell normalized
NoScan ==
  /\ sheets = <<>>
  /\ sheet_idx = 0
  /\ grid = <<>>
  /\ cursor = 0
  /\ header_row_index = -1
  /\ header_span = 0
  /\ columns = <<>>
  /\ data_start = 0
  /\ data_end = -1
  /\ r = 0
  /\ blank_skips = 0
  /\ blocks = <<>>
  /\ result = <<>>
  /\ cell_in = None
  /\ cell_out = None
  /\ cell_twice = None

scanVars ==
  <<sheets, sheet_idx, grid, cursor, candidateVars, blocks, result, cellVars>>

\* The longest row header_score is given
MaxCells == 3

ScoreCells ==
  {None, StrCell(<<"-">>), StrCell(<<"Q", "t", "d">>), StrCell(<<"A", "n", "a">>), StrCell(<<" ", "a", "n", "a">>),
   StrCell(<<"j", "a", "n">>), StrCell(<<"1", ",", "5">>), IntCell(7), FloatCell(1, <<"5">>), Inf}

InitScore ==
  /\ NoScan
  /\ pc = "score"
  /\ args \in SeqsUpTo(ScoreCells, MaxCells)
  /\ ret = <<>>

HeaderScoreReturns ==
  /\ pc = "score"
  /\ ~header_score_raises(args)
  /\ ret' = header_score(args)
  /\ pc' = "score_done"
  /\ UNCHANGED <<scanVars, args>>

\* int(v) of an infinite float, line 68, raises OverflowError
HeaderScoreRaises ==
  /\ pc = "score"
  /\ header_score_raises(args)
  /\ pc' = "score_error"
  /\ UNCHANGED <<scanVars, args, ret>>

NextScore ==
  \/ HeaderScoreReturns
  \/ HeaderScoreRaises

SpecScore == InitScore /\ [][NextScore]_vars

\* C11: for every row, header_score(row) lies in [0, 2], and it is 0 when the
\* row has fewer than 2 non-empty cells.
C11_ScoreInRange ==
  /\ pc # "score_error"
  /\ pc = "score_done" =>
       /\ ret \in 0..MaxScore
       /\ non_empty_count(args) < 2 => ret = 0

(***************************************************************************)
(* The score of header_score from the counts of its loop, lines 191-212,   *)
(* for two rows that differ in the number of decimal cells only            *)
(***************************************************************************)
\* The most non-empty cells of the two rows
MaxCounted == 6

\* The counts the loop can leave: a cell is a date or a text or neither, the
\* distinct values are at least one, and a decimal cell is a numeric cell
InitRates ==
  /\ NoScan
  /\ pc = "rate"
  /\ \E n \in 2..MaxCounted : \E t \in 0..n : \E d \in 0..(n - t) : \E u \in 1..n :
       \E m \in 1..n : \E hi \in 1..m : \E lo \in 0..(hi - 1) :
         args = [non_empty |-> n, text |-> t, uniq |-> u, numeric |-> m, date |-> d,
                 decimal |-> lo, more_decimal |-> hi]
  /\ ret = <<>>

\* The scores of the row with fewer and of the row with more decimal cells
ScoreBoth ==
  /\ pc = "rate"
  /\ ret' = <<ScoreFromCounts(args.non_empty, args.text, args.uniq, args.numeric,
                              args.decimal, args.date),
              ScoreFromCounts(args.non_empty, args.text, args.uniq, args.numeric,
                              args.more_decimal, args.date)>>
  /\ pc' = "rated"
  /\ UNCHANGED <<scanVars, args>>

NextRates == ScoreBoth

SpecRates == InitRates /\ [][NextRates]_vars

\* C12: header_score is non-increasing in decimalRate: of two rows with the
\* same non-empty count and the same text, unique, numeric and date rates, the
\* one with the larger decimalRate never gets the larger score.
C12_ScoreFallsWithDecimals == pc = "rated" => ret[2] <= ret[1]

\* Two rows scored on either side of the 0.2 decimal rate, neither clamped
C12_ScoresAcrossPenalty ==
  /\ pc = "rated"
  /\ 10 * args.decimal <= 2 * args.non_empty
  /\ 10 * args.more_decimal > 2 * args.non_empty
  /\ ret[2] > 0
  /\ ret[1] < MaxScore
  /\ ret[2] < ret[1]

(***************************************************************************)
(* find_next_header on its own: a grid and a start row, and the header     *)
(* found, none, or the exception of a header_score call                    *)
(***************************************************************************)
\* The longest grid find_next_header is given
MaxFindRows == 4

\* The most data rows above the header of a tall grid, and the greatest start
\* of a search in a tall grid
MaxLead == 301

MaxTallStart == 2

\* Rows of data, a header below them and a row of data below the header
TallGrids ==
  {[k \in 1..(n + 2) |-> IF k = n + 1 THEN RowHeader ELSE RowData] :
     n \in (ScanWindow - 2)..MaxLead}

InitFind ==
  /\ NoScan
  /\ pc = "find"
  /\ \/ \E g \in SeqsUpTo(RowPool, MaxFindRows) : \E start \in 0..Len(g) :
          args = [grid |-> g, start_row |-> start]
     \/ \E g \in TallGrids : \E start \in 0..MaxTallStart :
          args = [grid |-> g, start_row |-> start]
  /\ ret = <<>>

FindReturns ==
  /\ pc = "find"
  /\ ~find_next_header_raises(args.grid, args.start_row)
  /\ ret' = find_next_header(args.grid, args.start_row)
  /\ pc' = "find_done"
  /\ UNCHANGED <<scanVars, args>>

\* header_score raises inside the loop, lines 284-293
FindRaises ==
  /\ pc = "find"
  /\ find_next_header_raises(args.grid, args.start_row)
  /\ pc' = "find_error"
  /\ UNCHANGED <<scanVars, args, ret>>

NextFind ==
  \/ FindReturns
  \/ FindRaises

SpecFind == InitFind /\ [][NextFind]_vars

\* The rows of the scan window from start that are not empty and score above
\* 0.40
Candidates(g, start) ==
  {k \in start..(Min(Len(g), start + ScanWindow) - 1) :
     ~IsEmptyRow(RowAt(g, k)) /\ ScoreOf(RowAt(g, k)) > CandidateThreshold}

\* C13: find_next_header(grid, start) returns none exactly when no non-empty
\* row of the scan window scores above 0.40; otherwise it returns the candidate
\* row with the highest composite score of the window, and of several with
\* that score the one with the smallest row index.
C13_BestCandidateReturned ==
  /\ pc # "find_error"
  /\ pc = "find_done" =>
       /\ ret = NoHeader <=> Candidates(args.grid, args.start_row) = {}
       /\ ret # NoHeader =>
            /\ ret.rowIndex \in Candidates(args.grid, args.start_row)
            /\ \A k \in Candidates(args.grid, args.start_row) :
                 /\ Candidate(args.grid, k).score <= Candidate(args.grid, ret.rowIndex).score
                 /\ Candidate(args.grid, k).score = Candidate(args.grid, ret.rowIndex).score
                      => ret.rowIndex <= k

(***************************************************************************)
(* Properties of build_header                                              *)
(***************************************************************************)
\* The value of column c (1-based) of a header row after the merged cells are
\* filled: the cell itself when it is not empty, else the nearest non-empty
\* cell to its left, else nothing
NearestLeft(row, c) ==
  IF c > Len(row) THEN None
  ELSE IF \E j \in 1..c : normalize_cell(row[j]).t # "none"
    THEN normalize_cell(row[CHOOSE j \in 1..c :
                              /\ normalize_cell(row[j]).t # "none"
                              /\ \A i \in (j + 1)..c : normalize_cell(row[i]).t = "none"])
    ELSE None

\* The non-empty values of column c across the span rows from header row
\* index h, in row order, each value once
ColumnValues(g, h, span, c) ==
  LET vals == [i \in 1..Min(span, Len(g) - h) |-> NearestLeft(RowAt(g, h + i - 1), c)]
      kept == {i \in DOMAIN vals :
                 /\ vals[i].t # "none"
                 /\ \A j \in 1..(i - 1) : PyStr(vals[j]) # PyStr(vals[i])}
      Pick[S \in SUBSET DOMAIN vals] ==
        IF S = {} THEN <<>> ELSE <<PyStr(vals[MinOf(S)])>> \o Pick[S \ {MinOf(S)}]
  IN Pick[kept]

\* The name the values of column c give: joined by one space, or col_<c> when
\* there is none
ColumnName(g, h, span, c) ==
  LET values == ColumnValues(g, h, span, c)
  IN IF values = <<>> THEN <<"c", "o", "l", "_">> \o NatToStr(c) ELSE JoinWith(values, <<" ">>)

\* The name of column c is one a column to its left already has, whatever the
\* case of its letters
NameTaken(g, h, span, c) ==
  \E j \in 1..(c - 1) : Lower(ColumnName(g, h, span, j)) = Lower(ColumnName(g, h, span, c))

ScenarioBGrid ==
  <<<<StrCell(<<"V", "e", "n", "d", "a", "s">>), None, None>>,
    <<StrCell(<<"Q", "t", "d">>), StrCell(<<"P", "r", "e", "U+00E7", "o">>), StrCell(<<"T", "o", "t", "a", "l">>)>> >>

ScenarioBNames == <<<<"V", "e", "n", "d", "a", "s", " ", "Q", "t", "d">>, <<"V", "e", "n", "d", "a", "s", " ", "P", "r", "e", "U+00E7", "o">>, <<"V", "e", "n", "d", "a", "s", " ", "T", "o", "t", "a", "l">>>>

\* C14: build_header fills each empty cell of a header row with the nearest
\* non-empty value to its left, and names each column by the distinct non-empty
\* values of the column across the span rows, in row order, joined by one
\* space; a column with no value is named col_<n>, n its 1-based position (a
\* name a column to the left already has is the stem of the column's name).
\* ["Vendas",None,None] over ["Qtd","Preço","Total"] with span 2 yields
\* ["Vendas Qtd","Vendas Preço","Vendas Total"].
C14_NamesJoinSpanRows ==
  pc = "header_done" =>
    /\ Len(columns) = Len(RowAt(grid, header_row_index))
    /\ \A c \in DOMAIN columns :
         IF NameTaken(grid, header_row_index, header_span, c)
           THEN \E k \in 2..c :
                  columns[c] = ColumnName(grid, header_row_index, header_span, c)
                                 \o <<"_">> \o NatToStr(k)
           ELSE columns[c] = ColumnName(grid, header_row_index, header_span, c)
    /\ (grid = ScenarioBGrid /\ header_row_index = 0 /\ header_span = 2)
         => columns = ScenarioBNames

\* The header of the merged row over the row of labels has been built
C14_MergedHeaderBuilt ==
  /\ pc = "header_done"
  /\ grid = ScenarioBGrid
  /\ header_row_index = 0
  /\ header_span = 2
  /\ columns = ScenarioBNames

(***************************************************************************)
(* Properties of the data range of a block                                 *)
(***************************************************************************)
\* The loop that extends the data range is at row r of the grid
Extending == pc = "extend" /\ r < Len(grid)

\* The first row from r on that is not empty, Len(grid) when there is none
RunEnd == SkipEmptyRows(grid, r)

\* The row after the blank run at r scores at most 0.65 as a header, or the
\* run reaches the end of the grid
WeakRowAfterRun ==
  RunEnd = Len(grid) \/ 100 * ScoreOf(RowAt(grid, RunEnd)) <= 65 * ScoreScale

\* The loop is at a blank run of at most 3 rows with a weak row after it, and
\* fewer than 3 blank runs were tolerated
AtShortBlankRun ==
  /\ Extending
  /\ IsEmptyRow(RowAt(grid, r))
  /\ RunEnd - r <= 3
  /\ WeakRowAfterRun
  /\ blank_skips < 3

\* The loop is at the first row after a blank run it tolerated
AtRowAfterRun ==
  /\ Extending
  /\ r > data_start
  /\ IsEmptyRow(RowAt(grid, r - 1))
  /\ ~IsEmptyRow(RowAt(grid, r))

\* The step goes on with the same block, past the blank run
RunTolerated ==
  /\ pc' = "extend"
  /\ r' = RunEnd
  /\ blocks' = blocks
  /\ <<header_row_index, header_span, columns, data_start, data_end>>'
       = <<header_row_index, header_span, columns, data_start, data_end>>

\* The step takes row r into the data range of the same block
RowTaken ==
  /\ pc' = "extend"
  /\ data_end' = r
  /\ r' = r + 1
  /\ blocks' = blocks
  /\ <<header_row_index, header_span, columns, data_start>>'
       = <<header_row_index, header_span, columns, data_start>>

\* No block has its header in the data range of another block of the grid
NoHeaderInDataRange ==
  \A sb \in Scanned : \A i \in DOMAIN sb.blocks : \A j \in DOMAIN sb.blocks :
    i # j => sb.blocks[j].header_row \notin sb.blocks[i].data_start..sb.blocks[i].data_end

\* C15 as stated: a blank run of at most 3 rows followed by a non-empty row
\* scoring at most 0.65 (or by the end of the grid), with fewer than 3 blank
\* runs tolerated so far, does not end the block; the row after the run is
\* taken into the data range of the same block, and no block starts in it.
C15_BlankRunKeepsBlock ==
  /\ [][/\ AtShortBlankRun => RunTolerated
        /\ AtRowAfterRun => RowTaken]_vars
  /\ []NoHeaderInDataRange

\* C15, amended: the same, for a row after the run that is not a section
\* title; a section title after the run ends the block before it.
C15_BlankRunKeepsBlockUnlessTitle ==
  /\ [][/\ AtShortBlankRun => RunTolerated
        /\ (AtRowAfterRun /\ ~IsTitleRow(RowAt(grid, r))) => RowTaken]_vars
  /\ []NoHeaderInDataRange

\* A sheet is done with one block whose data range holds a blank run of two
\* rows and a data row after it
C15_BlockSpansBlankRun ==
  /\ pc = "outer"
  /\ Len(blocks) = 1
  /\ \E p \in (blocks[1].data_start + 1)..(blocks[1].data_end - 2) :
       /\ IsEmptyRow(RowAt(grid, p))
       /\ IsEmptyRow(RowAt(grid, p + 1))
       /\ ~IsEmptyRow(RowAt(grid, p + 2))

\* The loop is at an empty row
AtBlankRun == Extending /\ IsEmptyRow(RowAt(grid, r))

\* The step ends the block at the row before the blank run
RunEndsBlock ==
  /\ pc' = "emit"
  /\ data_end' = r - 1
  /\ r' = RunEnd
  /\ blank_skips' = blank_skips

\* The step tolerates the blank run and counts it
RunCounted == RunTolerated /\ blank_skips' = blank_skips + 1

\* C19 as stated: an empty row ends the block exactly when the first non-empty
\* row after the blank run scores above 0.65 as a header, or the run is longer
\* than 3 rows, or more than 3 blank runs were already tolerated for the block;
\* in every other case, also when exactly 3 were tolerated, the run is
\* tolerated and counted and the scan goes on after it.
C19_BlankRunEndsBlock ==
  [][AtBlankRun =>
       IF ~WeakRowAfterRun \/ RunEnd - r > 3 \/ blank_skips > 3
         THEN RunEndsBlock
         ELSE RunCounted]_vars

\* C19, amended: the same with the third case being that 3 or more blank runs
\* were already tolerated; when exactly 3 were tolerated the run ends the
\* block.
C19_BlankRunEndsBlockAtThree ==
  [][AtBlankRun =>
       IF ~WeakRowAfterRun \/ RunEnd - r > 3 \/ blank_skips >= 3
         THEN RunEndsBlock
         ELSE RunCounted]_vars

\* A block that tolerated 3 blank runs has ended at a fourth, a short run with
\* no strong header after it
C19_FourthRunEndedBlock ==
  /\ pc = "emit"
  /\ blank_skips = 3
  /\ r > data_end + 1
  /\ r - (data_end + 1) <= 3
  /\ IsEmptyRow(RowAt(grid, data_end + 1))
  /\ (r = Len(grid) \/ 100 * ScoreOf(RowAt(grid, r)) <= 65 * ScoreScale)

\* The loop is at a row that scores above 1.0 as a header
AtStrongHeader ==
  /\ Extending
  /\ ~IsEmptyRow(RowAt(grid, r))
  /\ ScoreOf(RowAt(grid, r)) > ScoreScale

\* The rows the loop has taken as data so far: the non-empty rows from
\* data_start to the row before r
DataRowsSoFar == {k \in data_start..(r - 1) : ~IsEmptyRow(RowAt(grid, k))}

\* C20: a non-empty row that scores above 1.0 as a header and comes after at
\* least 2 data rows of the block ends the block at the row before it; the
\* row is not in the block's data range, and the cursor of the next header
\* search is at the row.
C20_StrongHeaderEndsBlock ==
  [][/\ (AtStrongHeader /\ Cardinality(DataRowsSoFar) >= 2) =>
          /\ pc' = "emit"
          /\ data_end' = r - 1
          /\ r' = r
     /\ (pc = "emit" /\ r < Len(grid) /\ data_end = r - 1
           /\ ScoreOf(RowAt(grid, r)) > ScoreScale) => cursor' = r]_vars

(***************************************************************************)
(* metrics_engine.py: convert_brazilian_numbers.  A series is a sequence   *)
(* of cell values of an object column: strings, None and NaN.  A converted *)
(* value is NaN or the float of a decimal literal, kept as the integer m   *)
(* and the count e of decimal places with m / 10^e its value and e least.  *)
(***************************************************************************)
NotANumber == [nan |-> TRUE, m |-> 0, e |-> 0]

RECURSIVE Decimal(_, _)
\* The float m / 10^e
Decimal(m, e) ==
  IF e > 0 /\ m % 10 = 0 THEN Decimal(m \div 10, e - 1) ELSE [nan |-> FALSE, m |-> m, e |-> e]

DigitValue(ch) == CHOOSE d \in 0..9 : DigitSeq[d + 1] = ch

RECURSIVE DigitsToNat(_)
DigitsToNat(q) ==
  IF q = <<>> THEN 0 ELSE 10 * DigitsToNat(SubSeq(q, 1, Len(q) - 1)) + DigitValue(q[Len(q)])

\* float(chars) of a string of digits with at most one point and an optional
\* sign, which float() parses
FloatOf(chars) ==
  LET q == Unsigned(Strip(chars))
      points == {k \in DOMAIN q : q[k] = "."}
      p == IF points = {} THEN Len(q) + 1 ELSE MinOf(points)
      m == DigitsToNat(SubSeq(q, 1, p - 1) \o SubSeq(q, p + 1, Len(q)))
  IN Decimal(IF Strip(chars)[1] = "-" THEN -m ELSE m, Max(Len(q) - p, 0))

\* re.sub(r"[R$\s]", "", s)
RemoveCurrency(s) == SelectSeq(s, LAMBDA ch : ch \notin ({"R", "$"} \cup WhiteSpace))

AllIn(q, set) == \A k \in DOMAIN q : q[k] \in set

\* ^-?[body]+sep\d{1,2}$ : an optional minus, one or more characters of body,
\* the separator, one or two digits
MatchesGrouped(s, body, sep) ==
  \E u \in {IF s # <<>> /\ s[1] = "-" THEN Tail(s) ELSE s} :
    \E f \in 1..2 :
      /\ Len(u) >= f + 2
      /\ u[Len(u) - f] = sep
      /\ AllIn(SubSeq(u, Len(u) - f + 1, Len(u)), Digits)
      /\ AllIn(SubSeq(u, 1, Len(u) - f - 1), body)

\* ^-?\d+([.,]\d+)?$
MatchesPlain(s) ==
  \E u \in {IF s # <<>> /\ s[1] = "-" THEN Tail(s) ELSE s} :
    /\ u # <<>>
    /\ \/ AllIn(u, Digits)
       \/ \E p \in 2..(Len(u) - 1) :
            /\ u[p] \in {".", ","}
            /\ AllIn(SubSeq(u, 1, p - 1), Digits)
            /\ AllIn(SubSeq(u, p + 1, Len(u)), Digits)

\* The value counts as numeric in the first pass over the column
LooksNumeric(val) ==
  \E s \in {RemoveCurrency(Strip(PyStr(val)))} :
    \/ MatchesGrouped(s, Digits \cup {"."}, ",")
    \/ MatchesGrouped(s, Digits \cup {","}, ".")
    \/ MatchesPlain(s)

\* The last position of c in s: s.rindex(c)
RIndex(s, c) == MaxOf({k \in DOMAIN s : s[k] = c})

\* float(s), NaN when float raises
FloatOrNaN(s) == IF ParsesAsFloat(s) THEN FloatOf(s) ELSE NotANumber

\* A conversion that reads every value as Brazilian: points dropped, the comma
\* the decimal point.
convert_value_brazilian(val) ==
  IF val.t \in {"none", "nan"} THEN NotANumber
  ELSE FloatOrNaN(ReplaceAll(ReplaceAll(RemoveCurrency(Strip(PyStr(val))), <<".">>, <<>>),
                             <<",">>, <<".">>))

\* s after the separators are read: the later of "," and "." as the decimal
\* point when both occur, a lone "," as the decimal point
Separated(s) ==
  IF Contains(s, ",") /\ Contains(s, ".")
    THEN IF RIndex(s, ",") > RIndex(s, ".")
           THEN ReplaceAll(ReplaceAll(s, <<".">>, <<>>), <<",">>, <<".">>)
           ELSE ReplaceAll(s, <<",">>, <<>>)
  ELSE IF Contains(s, ",") THEN ReplaceAll(s, <<",">>, <<".">>)
  ELSE s

convert_value(val) ==
  IF val.t \in {"none", "nan"} THEN NotANumber
  ELSE FloatOrNaN(Separated(RemoveCurrency(Strip(PyStr(val)))))

\* for val in series.dropna().head(20)
HeadCount == 20

\* A sample of every value of the column that is not null.
SampledWhole(series) == SelectSeq(series, LAMBDA v : v.t \notin {"none", "nan"})

Sampled(series) ==
  The({SubSeq(present, 1, Min(Len(present), HeadCount)) :
         present \in {SelectSeq(series, LAMBDA v : v.t \notin {"none", "nan"})}})

\* total == 0 or numeric_count / total < 0.5
ColumnRejected(series) ==
  \E sample \in {Sampled(series)} :
    \/ Len(sample) = 0
    \/ 2 * Cardinality({k \in DOMAIN sample : LooksNumeric(sample[k])}) < Len(sample)

\* The converted series; the function returns None for a rejected column
convert_brazilian_numbers(series) == [k \in DOMAIN series |-> convert_value(series[k])]

\* The strings of the values: a prefix, an integer part and a decimal part
ValuePrefixes == {<<>>, <<"R", "$", " ">>, <<"-">>, <<"R", "$">>}

IntegerParts ==
  {<<>>, <<"0">>, <<"4", "5">>, <<"1", "2", "3", "4">>, <<"1", ".", "2", "3", "4">>, <<"1", ",", "2", "3", "4">>, <<"1", ".", "2", "3", "4", ".", "5", "6", "7">>, <<"1", ",", "2", "3", "4", ",", "5", "6", "7">>, <<"x", "1">>}

DecimalParts == {<<>>, <<",", "5", "6">>, <<".", "5", "6">>, <<",", "0", "0">>, <<".", "5">>, <<",", "5">>, <<",", "5", "6", "7">>, <<".", "5", "6", "7">>, <<",">>, <<".">>, <<" ">>}

SeriesValues ==
  {StrCell(a \o b \o c) : a \in ValuePrefixes, b \in IntegerParts, c \in DecimalParts}

\* The values that fill the rest of the column, and the most of them
MaxFill == 2

Fillers == {None, NaN, StrCell(<<"a", "b", "c">>)}

\* The columns of more than 20 values: a null or none, then 20 values of which
\* the first n match a numeric shape, then up to MaxExtra values more
MaxExtra == 2

LongSeries ==
  {lead \o [k \in 1..HeadCount |-> IF k <= n THEN StrCell(<<"4", "5">>) ELSE StrCell(<<"a", "b", "c">>)]
        \o extra :
     lead \in {<<>>, <<None>>},
     n \in (HeadCount \div 2 - 1)..(HeadCount \div 2),
     extra \in SeqsUpTo({StrCell(<<"4", "5", ",", "5">>), StrCell(<<"a", "b", "c">>)}, MaxExtra)}

InitConvert ==
  /\ NoScan
  /\ pc = "convert"
  /\ \/ \E v \in SeriesValues : \E rest \in SeqsUpTo(Fillers, MaxFill) : args = <<v>> \o rest
     \/ args \in LongSeries
  /\ ret = <<>>

ConvertReturns ==
  /\ pc = "convert"
  /\ ~ColumnRejected(args)
  /\ ret' = convert_brazilian_numbers(args)
  /\ pc' = "converted"
  /\ UNCHANGED <<scanVars, args>>

ConvertRejects ==
  /\ pc = "convert"
  /\ ColumnRejected(args)
  /\ pc' = "not_numeric"
  /\ UNCHANGED <<scanVars, args, ret>>

NextConvert ==
  \/ ConvertReturns
  \/ ConvertRejects

SpecConvert == InitConvert /\ [][NextConvert]_vars

(***************************************************************************)
(* Properties of convert_brazilian_numbers                                 *)
(***************************************************************************)
\* The string of a value without currency symbols and spaces, and without a
\* leading minus sign
Unmarked(val) ==
  LET s == SelectSeq(val.s, LAMBDA ch : ch \notin {"R", "$", " "})
  IN IF s # <<>> /\ s[1] = "-" THEN Tail(s) ELSE s

IsNegative(val) ==
  \E s \in {SelectSeq(val.s, LAMBDA ch : ch \notin {"R", "$", " "})} : s # <<>> /\ s[1] = "-"

Separators(u) == {k \in DOMAIN u : u[k] \in {",", "."}}

\* u holds a comma, its rightmost separator stands once in it and everything
\* else is a digit or the other separator, with a digit somewhere
ReadableNumber(u) ==
  /\ Contains(u, ",")
  /\ \E p \in {MaxOf(Separators(u))} :
       /\ \A k \in DOMAIN u : k # p => u[k] # u[p]
       /\ \A k \in DOMAIN u : u[k] \in Digits \cup {",", "."}
       /\ \E k \in DOMAIN u : u[k] \in Digits

\* The number u reads as with its rightmost separator as the decimal point and
\* the other separator dropped
NumberRead(u, negative) ==
  LET p == MaxOf(Separators(u))
      digits == SelectSeq(u, LAMBDA ch : ch \in Digits)
      m == DigitsToNat(digits)
  IN Decimal(IF negative THEN -m ELSE m, Len(u) - p)

\* C16: in a column that passes the numeric threshold, each value is converted
\* without its currency symbols and spaces so that the rightmost of "," and "."
\* is the decimal point and the other is dropped when both occur, and a lone
\* "," is the decimal point; "1.234,56" and "1,234.56" become 1234.56 and
\* "R$ 45,00" becomes 45.0.
C16_SeparatorsRead ==
  pc = "converted" =>
    \A k \in DOMAIN args :
      /\ (args[k].t = "str" /\ ReadableNumber(Unmarked(args[k])))
           => ret[k] = NumberRead(Unmarked(args[k]), IsNegative(args[k]))
      /\ args[k] \in {StrCell(<<"1", ".", "2", "3", "4", ",", "5", "6">>), StrCell(<<"1", ",", "2", "3", "4", ".", "5", "6">>)}
           => ret[k] = Decimal(123456, 2)
      /\ args[k] = StrCell(<<"R", "$", " ", "4", "5", ",", "0", "0">>) => ret[k] = Decimal(45, 0)

\* A column with "1,234.56" and one with "1.234,56" have been converted
C16_ThousandsConverted ==
  /\ pc = "converted"
  /\ args[1] \in {StrCell(<<"1", ".", "2", "3", "4", ",", "5", "6">>), StrCell(<<"1", ",", "2", "3", "4", ".", "5", "6">>)}
  /\ ret[1] = Decimal(123456, 2)

(***************************************************************************)
(* cleaner.py: remove_top_empty_rows and remove_footer_rows.  A DataFrame  *)
(* is the sequence of its rows, each row the sequence of its cells; the    *)
(* rows of the frames of a reader have at least one cell.                  *)
(***************************************************************************)
\* pd.isna(val)
IsNull(val) == val.t \in {"none", "nan"}

\* A test of the rows that takes a blank string for no value.
HasContent(row) == \E k \in DOMAIN row : normalize_cell(row[k]).t # "none"

\* row.notna().any()
HasValue(row) == \E k \in DOMAIN row : ~IsNull(row[k])

\* The 0-based indices of the rows that hold a value
ValueRows(df) == {idx \in 0..(Len(df) - 1) : HasValue(RowAt(df, idx))}

\* df.iloc[idx:].reset_index(drop=True)
RowsFrom(df, idx) == SubSeq(df, idx + 1, Len(df))

remove_top_empty_rows(df) ==
  IF df = <<>> THEN df
  ELSE IF ValueRows(df) # {} THEN RowsFrom(df, MinOf(ValueRows(df)))
  ELSE <<>>

\* The rows of the frames: no value, a NaN, a blank string, labels, a number
TopRowPool ==
  {<<None, None>>, <<NaN, None>>, <<StrCell(<<>>), None>>,
   <<StrCell(<<"N", "o", "m", "e">>), StrCell(<<"I", "d", "a", "d", "e">>)>>, <<None, IntCell(25)>>}

\* The most rows of a frame with empty rows at its top
MaxTopRows == 4

InitTop ==
  /\ NoScan
  /\ pc = "top"
  /\ args \in SeqsUpTo(TopRowPool, MaxTopRows)
  /\ ret = <<>>

\* if df.empty: return df
TopOfEmptyFrame ==
  /\ pc = "top"
  /\ args = <<>>
  /\ ret' = remove_top_empty_rows(args)
  /\ pc' = "top_done"
  /\ UNCHANGED <<scanVars, args>>

\* The loop finds a row with a value
TopRowFound ==
  /\ pc = "top"
  /\ args # <<>>
  /\ ValueRows(args) # {}
  /\ ret' = remove_top_empty_rows(args)
  /\ pc' = "top_done"
  /\ UNCHANGED <<scanVars, args>>

\* The loop ends with no row found
TopAllEmpty ==
  /\ pc = "top"
  /\ args # <<>>
  /\ ValueRows(args) = {}
  /\ ret' = remove_top_empty_rows(args)
  /\ pc' = "top_done"
  /\ UNCHANGED <<scanVars, args>>

NextTop ==
  \/ TopOfEmptyFrame
  \/ TopRowFound
  \/ TopAllEmpty

SpecTop == InitTop /\ [][NextTop]_vars

\* The row has no cell that is neither None nor NaN
NoNonNullCell(row) == \A k \in DOMAIN row : row[k] \in {None, NaN}

\* The count of the rows of the longest prefix of df of rows with no non-null
\* cell
EmptyPrefix(df) ==
  MaxOf({n \in 0..Len(df) : \A j \in 1..n : NoNonNullCell(df[j])})

\* C17: remove_top_empty_rows removes exactly the longest prefix of rows with
\* no non-null cell and keeps the later rows unchanged and in order, so that a
\* non-empty result starts with a row that holds a value; a grid of empty rows
\* yields the empty grid.
C17_TopEmptyRowsRemoved ==
  pc = "top_done" =>
    /\ Len(ret) = Len(args) - EmptyPrefix(args)
    /\ \A j \in DOMAIN ret : ret[j] = args[EmptyPrefix(args) + j]
    /\ ret # <<>> => ~NoNonNullCell(ret[1])
    /\ (\A j \in DOMAIN args : NoNonNullCell(args[j])) => ret = <<>>

\* Two empty rows were removed from the top of a frame, and an empty row
\* after the first row with a value was kept
C17_PrefixRemovedRestKept ==
  /\ pc = "top_done"
  /\ EmptyPrefix(args) = 2
  /\ Len(ret) = Len(args) - 2
  /\ \E j \in 2..Len(ret) : NoNonNullCell(ret[j])

footer_patterns ==
  {<<"o", "b", "s", ":">>, <<"o", "b", "s", ".">>, <<"o", "b", "s", "e", "r", "v", "a", "U+00E7", "U+00E3", "o", ":">>, <<"o", "b", "s", "e", "r", "v", "a", "c", "a", "o", ":">>, <<"n", "o", "t", "a", ":">>, <<"n", "o", "t", "a", "s", ":">>,
   <<"a", "t", "e", "n", "U+00E7", "U+00E3", "o", ":">>, <<"a", "t", "e", "n", "c", "a", "o", ":">>, <<"i", "m", "p", "o", "r", "t", "a", "n", "t", "e", ":">>, <<"l", "e", "g", "e", "n", "d", "a", ":">>, <<"*">>, <<"f", "o", "n", "t", "e", ":">>,
   <<"e", "l", "a", "b", "o", "r", "a", "d", "o">>, <<"g", "e", "r", "a", "d", "o">>, <<"a", "t", "u", "a", "l", "i", "z", "a", "d", "o">>}

\* The cells of the row with pd.notna(val) and str(val).strip()
FilledCells(row) == {k \in DOMAIN row : ~IsNull(row[k]) /\ Strip(PyStr(row[k])) # <<>>}

\* first_value: str(val).strip().lower() of the first such cell, the empty
\* string for None
first_value(row) ==
  IF FilledCells(row) = {} THEN <<>>
  ELSE Lower(Strip(PyStr(row[MinOf(FilledCells(row))])))

\* A footer test that finds a marker in any cell of the row.
IsFooterRowAnyCell(row) ==
  \E k \in FilledCells(row) : \E pattern \in footer_patterns :
    StartsWith(Lower(Strip(PyStr(row[k]))), pattern)

\* first_value and any(first_value.startswith(pattern) ...)
IsFooterRow(row) ==
  \E first \in {first_value(row)} :
    first # <<>> /\ \E pattern \in footer_patterns : StartsWith(first, pattern)

\* check_range = min(15, len(df))
FooterWindow == 15

\* The index before the last one of range(len(df) - 1, stop, -1)
ScanStop(df) == Max(0, Len(df) - Min(FooterWindow, Len(df)) - 1)

RECURSIVE FooterCutoffSkipping(_, _, _)
\* A scan that goes on above a row that is no footer.
FooterCutoffSkipping(df, i, cutoff) ==
  IF i <= ScanStop(df) THEN cutoff
  ELSE IF IsFooterRow(RowAt(df, i)) THEN FooterCutoffSkipping(df, i - 1, i)
  ELSE FooterCutoffSkipping(df, i - 1, cutoff)

RECURSIVE FooterCutoff(_, _, _)
\* cutoff_idx after the loop from index i down, cutoff the value before
FooterCutoff(df, i, cutoff) ==
  IF i <= ScanStop(df) THEN cutoff
  ELSE IF IsFooterRow(RowAt(df, i)) THEN FooterCutoff(df, i - 1, i)
  ELSE cutoff

\* if df.empty or len(df) < 3
MinFooterFrame == 3

remove_footer_rows(df) ==
  IF Len(df) < MinFooterFrame THEN df
  ELSE SubSeq(df, 1, FooterCutoff(df, Len(df) - 1, Len(df)))

RowProduct == <<StrCell(<<"P", "r", "o", "d", "u", "t", "o", " ", "A">>), IntCell(100)>>

RowObs == <<StrCell(<<"O", "b", "s", ":", " ", "D", "a", "d", "o", "s", " ", "d", "e", " ", "2", "0", "2", "4">>), None>>

RowNotaUpper == <<StrCell(<<" ", "N", "O", "T", "A", ":", " ", "V", "a", "l", "o", "r", "e", "s">>), None>>

RowStar == <<StrCell(<<" ">>), StrCell(<<"*", " ", "e", "s", "t", "i", "m", "a", "d", "o">>)>>

RowLateMarker == <<StrCell(<<"T", "o", "t", "a", "l">>), StrCell(<<"f", "o", "n", "t", "e", ":", " ", "I", "B", "G", "E">>)>>

FooterRowPool == {RowProduct, RowObs, RowNotaUpper, RowStar, RowLateMarker, <<None, NaN>>}

\* The most rows of a frame of any rows, and the most marker rows at the
\* bottom of a frame
MaxFooterRows == 4

MaxMarkers == 17

FooterFrames ==
  SeqsUpTo(FooterRowPool, MaxFooterRows)
    \cup {[k \in 1..(d + m) |-> IF k <= d THEN RowProduct ELSE RowObs] :
            d \in 0..2, m \in 0..MaxMarkers}

InitFooter ==
  /\ NoScan
  /\ pc = "footer"
  /\ args \in FooterFrames
  /\ ret = <<>>

\* if df.empty or len(df) < 3: return df
FooterOfSmallFrame ==
  /\ pc = "footer"
  /\ Len(args) < MinFooterFrame
  /\ ret' = remove_footer_rows(args)
  /\ pc' = "footer_done"
  /\ UNCHANGED <<scanVars, args>>

FooterScanned ==
  /\ pc = "footer"
  /\ Len(args) >= MinFooterFrame
  /\ ret' = remove_footer_rows(args)
  /\ pc' = "footer_done"
  /\ UNCHANGED <<scanVars, args>>

NextFooter ==
  \/ FooterOfSmallFrame
  \/ FooterScanned

SpecFooter == InitFooter /\ [][NextFooter]_vars

\* The last n rows of df all have a marker at the start of their first
\* non-empty value
MarkerRun(df, n) == \A j \in (Len(df) - n + 1)..Len(df) : IsFooterRow(df[j])

\* The length of the run of marker rows at the bottom of df, looking at its
\* last limit rows at most
BottomRun(df, limit) == MaxOf({n \in 0..Min(limit, Len(df)) : MarkerRun(df, n)})

\* ret is the rows of args without its last n rows
AllButLast(n) == ret = SubSeq(args, 1, Len(args) - n)

AtTitleRow == Extending /\ IsTitleRow(RowAt(grid, r))

\* The candidate block has ended before row r, a section-title row
EndedAtTitle ==
  /\ pc = "emit"
  /\ r < Len(grid)
  /\ IsTitleRow(RowAt(grid, r))
  /\ data_end = r - 1

\* C21: a section-title row that comes after at least 2 rows of the data
\* range ends the block at the row before it, and the cursor resumes at the
\* title row; a section-title row met before 2 rows were scanned does not end
\* the block and is taken as a data row.
C21_TitleEndsBlock ==
  [][/\ AtTitleRow =>
          IF r - data_start >= 2
            THEN pc' = "emit" /\ data_end' = r - 1 /\ r' = r
            ELSE RowTaken
     /\ EndedAtTitle => (pc' = "outer" /\ cursor' = r)]_vars

\* A block of two data rows has ended before a section title, and the cursor
\* is at the title
C21_BlockEndedBeforeTitle ==
  /\ pc = "outer"
  /\ blocks # <<>>
  /\ cursor < Len(grid)
  /\ IsTitleRow(RowAt(grid, cursor))
  /\ blocks[Len(blocks)].data_end = cursor - 1
  /\ blocks[Len(blocks)].data_start = cursor - 2

\* The score of the row k rows below the row find_next_header returned, 0 for
\* a row past the end of the grid
ScoreBelow(k) ==
  IF ret.rowIndex + k < Len(args.grid)
    THEN ScoreOf(RowAt(args.grid, ret.rowIndex + k))
    ELSE 0

\* C22: the span find_next_header returns for a candidate row r is 1 when row
\* r+1 scores at most 0.45, 2 when row r+1 scores above 0.45 and row r+2 at
\* most 0.45, and 3 when both score above 0.45; it never exceeds 3, and a row
\* past the end of the grid counts as scoring 0.
C22_SpanFollowsNextRows ==
  (pc = "find_done" /\ ret # NoHeader) =>
    /\ ret.span \in 1..3
    /\ 100 * ScoreBelow(1) <= 45 * ScoreScale => ret.span = 1
    /\ (100 * ScoreBelow(1) > 45 * ScoreScale /\ 100 * ScoreBelow(2) <= 45 * ScoreScale)
         => ret.span = 2
    /\ (100 * ScoreBelow(1) > 45 * ScoreScale /\ 100 * ScoreBelow(2) > 45 * ScoreScale)
         => ret.span = 3

\* A header of span 1 was returned whose second row below scores above 0.45
C22_SpanOneOverStrongThirdRow ==
  /\ pc = "find_done"
  /\ ret # NoHeader
  /\ ret.span = 1
  /\ 100 * ScoreBelow(2) > 45 * ScoreScale

\* The rows from index first on that are not empty and score above 0.40
Qualifying(g, first) ==
  {k \in first..(Len(g) - 1) :
     ~IsEmptyRow(RowAt(g, k)) /\ 100 * ScoreOf(RowAt(g, k)) > 40 * ScoreScale}

\* C23: find_next_header(grid, start) only returns a row index r with
\* start <= r < min(len(grid), start + 300), so a row that would qualify but
\* lies 300 or more rows after start is never returned; the row returned is
\* not empty and scores above 0.40.
C23_HeaderWithinWindow ==
  (pc = "find_done" /\ ret # NoHeader) =>
    /\ args.start_row <= ret.rowIndex
    /\ ret.rowIndex < Min(Len(args.grid), args.start_row + 300)
    /\ ret.rowIndex \in Qualifying(args.grid, args.start_row)

\* A search returned no header from a grid whose only qualifying row is 300
\* rows after the start
C23_HeaderBeyondWindow ==
  /\ pc = "find_done"
  /\ ret = NoHeader
  /\ Qualifying(args.grid, args.start_row) = {args.start_row + 300}

(***************************************************************************)
(* cleaner.py: remove_title_rows, remove_empty_columns and the sequence of *)
(* clean_spreadsheet                                                       *)
(***************************************************************************)
UpperOf ==
  [c \in SeqRange(LowerAZ) \cup SeqRange(LowerAccented) |->
     IF c \in SeqRange(LowerAZ)
       THEN UpperAZ[CHOOSE k \in DOMAIN LowerAZ : LowerAZ[k] = c]
       ELSE UpperAccented[CHOOSE k \in DOMAIN LowerAccented : LowerAccented[k] = c]]

\* str.upper()
Upper(chars) ==
  <<>> \o [k \in DOMAIN chars |->
             IF chars[k] \in DOMAIN UpperOf THEN UpperOf[chars[k]] ELSE chars[k]]

\* part in chars
HasSubstring(chars, part) ==
  \E k \in 1..(Len(chars) - Len(part) + 1) : SubSeq(chars, k, k + Len(part) - 1) = part

\* row.notna().sum()
filled_count(row) == Cardinality({k \in DOMAIN row : ~IsNull(row[k])})

\* ' '.join([str(v).upper() for v in row if pd.notna(v)]).strip()
text_content(row) ==
  Strip(JoinWith(<<>> \o [k \in DOMAIN SelectSeq(row, LAMBDA v : ~IsNull(v)) |->
                            Upper(PyStr(SelectSeq(row, LAMBDA v : ~IsNull(v))[k]))],
                 <<" ">>))

title_keywords ==
  {<<"Q", "U", "A", "D", "R", "O", " ", "R", "E", "S", "U", "M", "O">>, <<"R", "E", "L", "A", "T", "U+00D3", "R", "I", "O">>, <<"R", "E", "L", "A", "T", "O", "R", "I", "O">>, <<"T", "A", "B", "E", "L", "A", " ", "D", "E">>, <<"P", "L", "A", "N", "I", "L", "H", "A", " ", "D", "E">>,
   <<"L", "I", "S", "T", "A", "G", "E", "M", " ", "D", "E">>, <<"L", "E", "V", "A", "N", "T", "A", "M", "E", "N", "T", "O", " ", "D", "E">>}

\* any(keyword in text_content for keyword in title_keywords)
HasTitleKeyword(row) ==
  \E text \in {text_content(row)} : \E keyword \in title_keywords : HasSubstring(text, keyword)

\* filled_count <= 2 and filled_count > 0, and the keyword test
IsTitleOfSheet(row) == filled_count(row) \in 1..2 /\ HasTitleKeyword(row)

\* for idx in range(min(10, len(df)))
TitleWindow == 10

RECURSIVE TitleScanThrough(_, _, _)
\* A scan that goes on below a row of 3 or more filled cells.
TitleScanThrough(df, idx, rows_to_skip) ==
  IF idx >= Min(TitleWindow, Len(df)) THEN rows_to_skip
  ELSE IF IsTitleOfSheet(RowAt(df, idx))
    THEN TitleScanThrough(df, idx + 1, rows_to_skip \cup {idx})
  ELSE TitleScanThrough(df, idx + 1, rows_to_skip)

RECURSIVE TitleScan(_, _, _)
\* rows_to_skip after the loop from idx on
TitleScan(df, idx, rows_to_skip) ==
  IF idx >= Min(TitleWindow, Len(df)) THEN rows_to_skip
  ELSE IF IsTitleOfSheet(RowAt(df, idx)) THEN TitleScan(df, idx + 1, rows_to_skip \cup {idx})
  ELSE IF filled_count(RowAt(df, idx)) >= 3 THEN rows_to_skip
  ELSE TitleScan(df, idx + 1, rows_to_skip)

RECURSIVE RowsExcept(_, _, _)
\* df[~df.index.isin(rows_to_skip)], from the row of index idx on
RowsExcept(df, idx, rows_to_skip) ==
  IF idx >= Len(df) THEN <<>>
  ELSE (IF idx \in rows_to_skip THEN <<>> ELSE <<RowAt(df, idx)>>)
         \o RowsExcept(df, idx + 1, rows_to_skip)

\* if df.empty or len(df) < 2
MinTitleFrame == 2

remove_title_rows(df) ==
  IF Len(df) < MinTitleFrame THEN df
  ELSE RowsExcept(df, 0, TitleScan(df, 0, {}))

RowQuadro == <<StrCell(<<"Q", "U", "A", "D", "R", "O", " ", "R", "E", "S", "U", "M", "O", " ", "-", " ", "A">>), None, None>>

RowRelatorio == <<NaN, StrCell(<<"R", "e", "l", "a", "t", "U+00F3", "r", "i", "o">>), IntCell(2024)>>

RowQuadroSplit == <<StrCell(<<"Q", "u", "a", "d", "r", "o">>), StrCell(<<"r", "e", "s", "u", "m", "o">>), None>>

RowTabelaFull == <<StrCell(<<"T", "a", "b", "e", "l", "a", " ", "d", "e">>), StrCell(<<"x">>), StrCell(<<>>)>>

RowSparse == <<StrCell(<<"A", "n", "a">>), None, None>>

TitleRowPool ==
  {RowQuadro, RowRelatorio, RowQuadroSplit, RowTabelaFull, RowSparse, RowHeader,
   <<None, NaN, None>>}

\* The most rows of a frame of any rows, and the most sparse rows above the
\* title of a long frame
MaxTitleRows == 3

MaxSparse == 10

TitleFrames ==
  SeqsUpTo(TitleRowPool, MaxTitleRows)
    \cup {[k \in 1..(n + 1) |-> IF k <= n THEN RowSparse ELSE RowQuadro] :
            n \in (TitleWindow - 2)..MaxSparse}

InitTitle ==
  /\ NoScan
  /\ pc = "title"
  /\ args \in TitleFrames
  /\ ret = <<>>

\* if df.empty or len(df) < 2: return df
TitleOfSmallFrame ==
  /\ pc = "title"
  /\ Len(args) < MinTitleFrame
  /\ ret' = remove_title_rows(args)
  /\ pc' = "title_done"
  /\ UNCHANGED <<scanVars, args>>

\* if rows_to_skip: return df[mask]
TitleRowsDropped ==
  /\ pc = "title"
  /\ Len(args) >= MinTitleFrame
  /\ TitleScan(args, 0, {}) # {}
  /\ ret' = remove_title_rows(args)
  /\ pc' = "title_done"
  /\ UNCHANGED <<scanVars, args>>

\* return df
TitleNoneDropped ==
  /\ pc = "title"
  /\ Len(args) >= MinTitleFrame
  /\ TitleScan(args, 0, {}) = {}
  /\ ret' = remove_title_rows(args)
  /\ pc' = "title_done"
  /\ UNCHANGED <<scanVars, args>>

NextTitle ==
  \/ TitleOfSmallFrame
  \/ TitleRowsDropped
  \/ TitleNoneDropped

SpecTitle == InitTitle /\ [][NextTitle]_vars

\* The rows of df that hold a title keyword in 1 or 2 filled cells within the
\* first rows of the frame
KeywordRows(df) ==
  {idx \in 0..(Len(df) - 1) : idx < TitleWindow /\ IsTitleOfSheet(RowAt(df, idx))}

\* No row above the row of index idx has 3 or more filled cells.
OnlySparseAbove(df, idx) == \A j \in 0..(idx - 1) : filled_count(RowAt(df, j)) < 3

IsEmptyFrame(df) == IF Len(df) = 0 THEN TRUE ELSE Len(df[1]) = 0

\* df[col].notna().sum()
NonNullCount(df, col) == Cardinality({k \in DOMAIN df : ~IsNull(df[k][col])})

\* non_null_pct > 0.02, in hundredths
MinFillPercent == 2

\* A column kept at a ratio of exactly 2%.
KeepsColumnFrom(df, col) == NonNullCount(df, col) * 100 >= MinFillPercent * Len(df)

KeepsColumn(df, col) == NonNullCount(df, col) * 100 > MinFillPercent * Len(df)

cols_to_keep(df) == SelectSeq([c \in 1..Len(df[1]) |-> c], LAMBDA c : KeepsColumn(df, c))

\* df[cols]
Project(df, cols) == [k \in DOMAIN df |-> [c \in DOMAIN cols |-> df[k][cols[c]]]]

remove_empty_columns(df) ==
  IF IsEmptyFrame(df) THEN df
  ELSE IF cols_to_keep(df) = <<>> THEN df
  ELSE Project(df, cols_to_keep(df))

ColumnCells == {None, NaN, StrCell(<<"a">>), StrCell(<<>>)}

\* The most rows of a frame of any cells, and the most rows of a long frame
MaxColumnRows == 2

MaxLongFrame == 50

MaxFilled == 2

\* A frame of n rows of which column c holds a value in its first fill[c] rows
LongFrame(n, fill) ==
  [k \in 1..n |-> [c \in DOMAIN fill |-> IF k <= fill[c] THEN IntCell(k) ELSE None]]

ColumnFrames ==
  SeqsUpTo(ColumnCells \X ColumnCells, MaxColumnRows)
    \cup {<<<<>>, <<>>>>}
    \cup {LongFrame(n, fill) : n \in (MaxLongFrame - 1)..MaxLongFrame,
                               fill \in (0..MaxFilled) \X (0..MaxFilled) \X (0..MaxFilled)}

InitColumns ==
  /\ NoScan
  /\ pc = "columns"
  /\ args \in ColumnFrames
  /\ ret = <<>>

\* if df.empty: return df
ColumnsOfEmptyFrame ==
  /\ pc = "columns"
  /\ IsEmptyFrame(args)
  /\ ret' = remove_empty_columns(args)
  /\ pc' = "columns_done"
  /\ UNCHANGED <<scanVars, args>>

\* if not cols_to_keep: return df
ColumnsAllKept ==
  /\ pc = "columns"
  /\ ~IsEmptyFrame(args)
  /\ cols_to_keep(args) = <<>>
  /\ ret' = remove_empty_columns(args)
  /\ pc' = "columns_done"
  /\ UNCHANGED <<scanVars, args>>

\* return df[cols_to_keep]
ColumnsSelected ==
  /\ pc = "columns"
  /\ ~IsEmptyFrame(args)
  /\ cols_to_keep(args) # <<>>
  /\ ret' = remove_empty_columns(args)
  /\ pc' = "columns_done"
  /\ UNCHANGED <<scanVars, args>>

NextColumns ==
  \/ ColumnsOfEmptyFrame
  \/ ColumnsAllKept
  \/ ColumnsSelected

SpecColumns == InitColumns /\ [][NextColumns]_vars

\* The columns of df whose non-null ratio is strictly greater than 2%
FilledColumns(df) ==
  {c \in 1..Len(df[1]) : NonNullCount(df, c) * 100 > MinFillPercent * Len(df)}

\* out holds the columns cols of df, and no other, in their order in df.
HoldsColumns(out, df, cols) ==
  /\ Len(out) = Len(df)
  /\ \A k \in DOMAIN df :
       /\ Len(out[k]) = Cardinality(cols)
       /\ \A c \in cols : out[k][1 + Cardinality({d \in cols : d < c})] = df[k][c]

RowNote == <<StrCell(<<"O", "b", "s", ":", " ", "v", "e", "r", " ", "a", "n", "e", "x", "o">>), None, None>>

CleanRowPool == {RowQuadro, <<None, NaN, None>>, RowHeader, RowSparse, RowNote}

MaxCleanRows == 4

\* cleaned_sheets[sheet_name] of a sheet read as df
clean_sheet(df) ==
  remove_footer_rows(remove_empty_columns(remove_title_rows(remove_top_empty_rows(df))))

InitClean ==
  /\ NoScan
  /\ pc = "clean"
  /\ args \in SeqsUpTo(CleanRowPool, MaxCleanRows)
  /\ ret = <<>>

\* df = remove_top_empty_rows(df)
CleanTop ==
  /\ pc = "clean"
  /\ ret' = remove_top_empty_rows(args)
  /\ pc' = "clean_titles"
  /\ UNCHANGED <<scanVars, args>>

\* df = remove_title_rows(df)
CleanTitles ==
  /\ pc = "clean_titles"
  /\ ret' = remove_title_rows(ret)
  /\ pc' = "clean_columns"
  /\ UNCHANGED <<scanVars, args>>

\* df = remove_empty_columns(df)
CleanColumns ==
  /\ pc = "clean_columns"
  /\ ret' = remove_empty_columns(ret)
  /\ pc' = "clean_footer"
  /\ UNCHANGED <<scanVars, args>>

\* df = remove_footer_rows(df); cleaned_sheets[sheet_name] = df
CleanFooter ==
  /\ pc = "clean_footer"
  /\ ret' = remove_footer_rows(ret)
  /\ pc' = "clean_done"
  /\ UNCHANGED <<scanVars, args>>

NextClean ==
  \/ CleanTop
  \/ CleanTitles
  \/ CleanColumns
  \/ CleanFooter

SpecClean == InitClean /\ [][NextClean]_vars

\* C26: the grid produced by the pre-clean sequence of clean_spreadsheet has no
\* leading row without a value: whenever the result has a row, its first row
\* holds at least one value, also when a title row was removed from above a
\* blank row.
C26_FirstRowHoldsValue ==
  (pc = "clean_done" /\ ret # <<>>) => HasValue(ret[1])

\* The first 20 values of the column that are not null
FirstNonNull(series) ==
  LET present == SelectSeq(series, LAMBDA v : ~IsNull(v))
  IN SubSeq(present, 1, Min(Len(present), HeadCount))

\* Fewer than 50% of the values of sample match a numeric shape
FewNumeric(sample) ==
  2 * Cardinality({k \in DOMAIN sample : LooksNumeric(sample[k])}) < Len(sample)

\* The string of val holds a letter other than the R of the currency symbol,
\* holds no digit, or holds no comma and more than one point: float() raises.
NoFloat(val) ==
  \/ \E k \in DOMAIN val.s : val.s[k] \in (SeqRange(LowerAZ) \cup SeqRange(UpperAZ)) \ {"R"}
  \/ \A k \in DOMAIN val.s : val.s[k] \notin Digits
  \/ /\ ~Contains(val.s, ",")
     /\ Cardinality({k \in DOMAIN val.s : val.s[k] = "."}) > 1

\* C27: convert_brazilian_numbers returns no conversion exactly when fewer than
\* 50% of the first 20 non-null values of the column match a numeric shape or
\* the column has no non-null value; when the threshold is met every value of
\* the column is converted, each by itself, and a value that does not parse
\* becomes the missing-value marker.
C27_ThresholdOverFirstValues ==
  /\ pc = "not_numeric" =>
       (FirstNonNull(args) = <<>> \/ FewNumeric(FirstNonNull(args)))
  /\ pc = "converted" =>
       /\ ~(FirstNonNull(args) = <<>> \/ FewNumeric(FirstNonNull(args)))
       /\ Len(ret) = Len(args)
       /\ \A k \in DOMAIN args :
            /\ IsNull(args[k]) => ret[k] = NotANumber
            /\ (args[k].t = "str" /\ NoFloat(args[k])) => ret[k] = NotANumber
            /\ \A j \in DOMAIN args : args[j] = args[k] => ret[j] = ret[k]
            /\ args[k] \in {StrCell(<<"4", "5">>), StrCell(<<"4", "5", ",", "5">>)}
                 => ret[k] = Decimal(IF Len(args[k].s) = 2 THEN 45 ELSE 455, Len(args[k].s) \div 4)

\* A column whose first 20 non-null values are half numeric was converted in
\* full, the values after the first 20 and the values that do not parse
\* included.
C27_LongColumnConverted ==
  /\ pc = "converted"
  /\ Len(args) > HeadCount + 1
  /\ args[1] = None
  /\ args[Len(args)] = StrCell(<<"a", "b", "c">>)
  /\ ret[Len(args)] = NotANumber
  /\ FewNumeric(SelectSeq(args, LAMBDA v : ~IsNull(v)))

\* The rows of a block are the cleaned rows of the data range of the sheet as
\* it was handed to detect_blocks.
RowsOfSheet(block, sheet) ==
  block.rows = ExtractRows(sheet, Len(block.columns), block.data_start, block.data_end)

\* A header row of the block has an empty cell to the right of a value: the
\* propagation fills it in the copy that names the columns.
HasMergedHeader(block, sheet) ==
  \E k \in block.header_row .. (block.header_row + block.header_span - 1) :
    _propagate_merged_header(RowAt(sheet, k)) # RowAt(sheet, k)

\* C28: detect_blocks, find_next_header and build_header leave their input
\* grid unchanged: during and after the scan of a sheet every cell of every row
\* of the grid has the value it had in the sheet, and the rows of every block
\* are cleaned rows of the sheet, without the header cells filled in for naming.
C28_GridUnchanged ==
  sheet_idx > 0 =>
    /\ grid = sheets[sheet_idx].grid
    /\ \A k \in DOMAIN blocks : RowsOfSheet(blocks[k], sheets[sheet_idx].grid)

\* The scan of a sheet has ended with a block whose header has a merged cell.
C28_MergedHeaderBlockEmitted ==
  /\ sheet_idx > 0
  /\ \E k \in DOMAIN blocks : HasMergedHeader(blocks[k], grid)
  /\ pc = "sheet"

(***************************************************************************)
(* reader.py: read_excel.  A file is the name of its kind, the cells of    *)
(* its one sheet as pandas and openpyxl read them, and the merged ranges   *)
(* of the sheet, each <<min_col, min_row, max_col, max_row>> from 1.       *)
(***************************************************************************)
\* The merged range that holds the cell of row rr and column cc, as a set
RangesOver(ranges, rr, cc) ==
  {m \in ranges : m[1] <= cc /\ cc <= m[3] /\ m[2] <= rr /\ rr <= m[4]}

\* top_left of a range, None past the rows or the columns of the grid
TopLeft(cells, m) ==
  IF m[2] <= Len(cells) THEN CellOrNone(cells[m[2]], m[1]) ELSE None

\* The frame of the sheet with the value of the top left cell of each merged
\* range in the cells of the range that are None
_read_excel_with_merged_cells(cells, ranges) ==
  [rr \in DOMAIN cells |->
     [cc \in DOMAIN cells[rr] |->
        IF cells[rr][cc].t = "none"
             /\ \E m \in RangesOver(ranges, rr, cc) : TopLeft(cells, m).t # "none"
          THEN TopLeft(cells, The(RangesOver(ranges, rr, cc)))
          ELSE cells[rr][cc]]]

\* df.iloc[first_data_row:], first_data_row 0 when no row holds a value
ReaderTop(df) ==
  IF ValueRows(df) # {} THEN RowsFrom(df, MinOf(ValueRows(df))) ELSE df

\* check_range = min(15, len(df)) and fill_rate < 0.2, in hundredths
ReaderWindow == 15

LowFillPercent == 20

RECURSIVE ReaderCutoff(_, _, _)
\* cutoff after the loop from index i down, cutoff the value before
ReaderCutoff(df, i, cutoff) ==
  IF i <= Max(0, Len(df) - Min(ReaderWindow, Len(df)) - 1) THEN cutoff
  ELSE IF filled_count(RowAt(df, i)) * 100 < LowFillPercent * Len(RowAt(df, i))
    THEN ReaderCutoff(df, i - 1, i)
  ELSE cutoff

\* df.iloc[:cutoff]
ReaderFooter(df) == SubSeq(df, 1, ReaderCutoff(df, Len(df) - 1, Len(df)))

IsCsv(file) == file.filename = "csv"

\* cleaned_sheets[sheet_name] as read_excel returns it
read_excel(file) ==
  IF IsCsv(file) THEN clean_sheet(file.cells)
  ELSE ReaderFooter(ReaderTop(_read_excel_with_merged_cells(file.cells, file.merged)))

ReadRowPool == {RowQuadro, <<None, None, None>>, RowHeader, RowSparse, RowNote}

MaxReadRows == 3

\* No merged range, the first row merged over its columns, the first column
\* merged over two rows
MergedRanges == {{}, {<<1, 1, 3, 1>>}, {<<1, 1, 1, 2>>}}

InitRead ==
  /\ NoScan
  /\ pc = "read"
  /\ \E cells \in SeqsUpTo(ReadRowPool, MaxReadRows) :
       \/ args = [filename |-> "csv", cells |-> cells, merged |-> {}]
       \/ \E merged \in MergedRanges :
            args = [filename |-> "xlsx", cells |-> cells, merged |-> merged]
  /\ ret = <<>>

\* return cleaned_sheets of a CSV file
ReadCsv ==
  /\ pc = "read"
  /\ IsCsv(args)
  /\ ret' = read_excel(args)
  /\ pc' = "read_done"
  /\ UNCHANGED <<scanVars, args>>

\* cleaned_sheets[sheet_name] = df of the sheet of an Excel file
ReadWorkbook ==
  /\ pc = "read"
  /\ ~IsCsv(args)
  /\ ret' = read_excel(args)
  /\ pc' = "read_done"
  /\ UNCHANGED <<scanVars, args>>

NextRead ==
  \/ ReadCsv
  \/ ReadWorkbook

SpecRead == InitRead /\ [][NextRead]_vars

\* C29: for an Excel workbook the grid that read_excel returns for a sheet is
\* the output of the full cleaning sequence of clean_spreadsheet on the sheet
\* with its merged cells filled: the title rows and the near-empty columns
\* are removed from it.
C29_WorkbookGridIsCleaned ==
  (pc = "read_done" /\ ~IsCsv(args)) =>
    ret = clean_sheet(_read_excel_with_merged_cells(args.cells, args.merged))

\* Every row of g has as many cells as its first row.
IsRectangular(g) == \A k \in DOMAIN g : Len(g[k]) = Len(g[1])

\* The rows of the data range of a block that are not empty
NonEmptyRows(block, g) ==
  {rr \in block.data_start .. block.data_end : ~IsEmptyRow(RowAt(g, rr))}

\* The rows of the data range of a block that are neither empty nor totals
SurvivingRows(block, g) ==
  {rr \in NonEmptyRows(block, g) : ~IsTotalRow(RowAt(g, rr))}

\* C30: for every block emitted by detect_blocks on a rectangular grid, the
\* number of non-empty grid rows in [data_start, data_end] equals len(rows) +
\* removed_totals, and rows lists the surviving rows, cleaned, in their grid
\* order.
C30_RowsAccounted ==
  (sheet_idx > 0 /\ IsRectangular(grid)) =>
    \A k \in DOMAIN blocks :
      /\ Cardinality(NonEmptyRows(blocks[k], grid))
           = Len(blocks[k].rows) + blocks[k].removed_totals
      /\ Len(blocks[k].rows) = Cardinality(SurvivingRows(blocks[k], grid))
      /\ \A rr \in SurvivingRows(blocks[k], grid) :
           blocks[k].rows[1 + Cardinality({j \in SurvivingRows(blocks[k], grid) : j < rr})]
             = CleanRow(RowAt(grid, rr), Len(blocks[k].columns))

\* A block was emitted whose data range holds an empty row, a total row and
\* rows that survive.
C30_BlockWithTotalAndBlank ==
  /\ sheet_idx > 0
  /\ IsRectangular(grid)
  /\ \E k \in DOMAIN blocks :
       /\ blocks[k].removed_totals > 0
       /\ Len(blocks[k].rows) > 1
       /\ \E rr \in blocks[k].data_start .. blocks[k].data_end : IsEmptyRow(RowAt(grid, rr))

====
